---- MODULE Spec2Model ----
(***************************************************************************)
(* Model of scaffoldmaker.utils.tracksurface: TrackSurfacePosition,        *)
(* TrackSurface and the module functions used by its queries.              *)
(*                                                                         *)
(* Numbers.  The code computes in floating point; the model computes in    *)
(* exact fixed point.  A proportion or xi value v is held as the integer   *)
(* v * ONE.  Inputs are taken on grids on which every division the code    *)
(* performs is exact, so the model follows the real-number reading of the  *)
(* code (floating-point rounding is not modelled).                         *)
(***************************************************************************)
EXTENDS Integers, Sequences, FiniteSets, TLC

\* ------------------------------------------------------------------ scales
\* 1.0 in fixed point.  A multiple of 10^7 so that the 1.0E-7 tolerances are
\* whole numbers, and of 2, 3, 4 and 20 so that the grids below divide.
ONE == 6 * 10000000

\* the grid on which xi increments are drawn: 1/20th of an element
DxiUnit == ONE \div 20

\* ------------------------------------------------------------------ bounds
MaxElements1 == 2
MaxElements2 == 2

\* the points findIntersectionCurve is followed to: its while loop has no
\* limit of its own
MaxPoints == 10

\* ------------------------------------------------------------------ helpers
Abs(a) == IF a < 0 THEN -a ELSE a

RECURSIVE ISqrtFrom(_, _)
ISqrtFrom(s, r) == IF (r + 1) * (r + 1) > s THEN r ELSE ISqrtFrom(s, r + 1)

\* cmlibs.maths.vectorops.magnitude on a 2-vector of xi increments lying on
\* the DxiUnit grid (the squares are taken in grid units to stay in range)
magnitude(v) ==
    DxiUnit * ISqrtFrom((v[1] \div DxiUnit) * (v[1] \div DxiUnit)
                        + (v[2] \div DxiUnit) * (v[2] \div DxiUnit), 0)

\* value * num / den for value, num and den on the DxiUnit grid; the quotient
\* is taken to 1/1000th of a DxiUnit to keep the product in range
ScaleBy(value, num, den) ==
    (((value \div DxiUnit) * (num \div DxiUnit) * 1000) \div (den \div DxiUnit))
        * (DxiUnit \div 1000)

\* ------------------------------------------------- TrackSurfacePosition
TrackSurfacePosition(e1, e2, xi1, xi2) ==
    [e1 |-> e1, e2 |-> e2, xi1 |-> xi1, xi2 |-> xi2]

NoPosition == TrackSurfacePosition(-1, -1, -1, -1)

\* ------------------------------------------------------------ the state
VARIABLES
    elementsCount1,   \* TrackSurface._elementsCount1
    elementsCount2,   \* TrackSurface._elementsCount2
    loop1,            \* TrackSurface._loop1
    nx,               \* TrackSurface._nx, node coordinates
    nd1,              \* TrackSurface._nd1, node derivatives in direction 1
    nd2,              \* TrackSurface._nd2, node derivatives in direction 2
    nd12,             \* TrackSurface._nd12, node cross derivatives, << >> for None
    xRange,           \* TrackSurface._xRange, the extent of nx in each component
    position,         \* the TrackSurfacePosition the caller holds
    last,             \* the last call made on the surface and what it returned
    tv,               \* the locals of the trackVector call in progress
    fn,               \* the locals of the findNearestPosition call in progress
    fp,               \* the locals of the findIntersectionPoint call in progress
    fc,               \* the locals of the findIntersectionCurve call in progress
    oc                \* the locals of the findNearestPositionOnCurve call in progress

vars == <<elementsCount1, elementsCount2, loop1, nx, nd1, nd2, nd12, xRange,
          position, last, tv, fn, fp, fc, oc>>

surface == <<elementsCount1, elementsCount2, loop1, nx, nd1, nd2, nd12, xRange>>

\* the locals of the iterative queries other than trackVector
queries == <<fn, fp, fc, oc>>

\* ------------------------------------------------ createPositionProportion
maxProportion1 == IF loop1 THEN 2 * ONE ELSE ONE

\* a version of assertProportions without the upper limits
assertProportions_noUpper(proportion1, proportion2) ==
    (proportion1 >= 0) /\ (proportion2 >= 0)

\* the two assertions at the head of createPositionProportion
assertProportions(proportion1, proportion2) ==
    /\ (proportion1 >= 0) /\ (proportion1 <= maxProportion1)
    /\ (proportion2 >= 0) /\ (proportion2 <= ONE)

max_e1 == IF loop1 THEN 2 * elementsCount1 ELSE elementsCount1

\* a version of createPositionProportion whose tests are <= instead of <, so
\* that the top proportion is not sent to the last element
createPositionProportion_topInclusive(proportion1, proportion2) ==
    LET pe1 == proportion1 * elementsCount1
        e1  == IF pe1 <= max_e1 * ONE THEN pe1 \div ONE ELSE max_e1 - 1
        xi1 == IF pe1 <= max_e1 * ONE THEN pe1 - e1 * ONE ELSE ONE
        pe2 == proportion2 * elementsCount2
        e2  == IF pe2 <= elementsCount2 * ONE THEN pe2 \div ONE ELSE elementsCount2 - 1
        xi2 == IF pe2 <= elementsCount2 * ONE THEN pe2 - e2 * ONE ELSE ONE
    IN  TrackSurfacePosition(e1, e2, xi1, xi2)

\* the body of createPositionProportion after the assertions
createPositionProportion(proportion1, proportion2) ==
    LET pe1 == proportion1 * elementsCount1
        e1  == IF pe1 < max_e1 * ONE THEN pe1 \div ONE ELSE max_e1 - 1
        xi1 == IF pe1 < max_e1 * ONE THEN pe1 - e1 * ONE ELSE ONE
        pe2 == proportion2 * elementsCount2
        e2  == IF pe2 < elementsCount2 * ONE THEN pe2 \div ONE ELSE elementsCount2 - 1
        xi2 == IF pe2 < elementsCount2 * ONE THEN pe2 - e2 * ONE ELSE ONE
    IN  TrackSurfacePosition(e1, e2, xi1, xi2)

\* ----------------------------------------------------------- getProportion
\* a version of getProportion that leaves xi out of the proportion
getProportion_elementOnly(p) ==
    << (p.e1 * ONE) \div elementsCount1, (p.e2 * ONE) \div elementsCount2 >>

getProportion(p) ==
    << (p.e1 * ONE + p.xi1) \div elementsCount1,
       (p.e2 * ONE + p.xi2) \div elementsCount2 >>

\* ------------------------------------------------------ _positionOnBoundary
LOWER_P_LIMIT == ONE \div 10000000

UPPER_P_LIMIT == ONE - LOWER_P_LIMIT

\* a version of positionOnBoundary without the test of loop1
positionOnBoundary_noLoopTest(p) ==
    LET proportion1 == (p.e1 * ONE + p.xi1) \div elementsCount1
        proportion2 == (p.e2 * ONE + p.xi2) \div elementsCount2
    IN  IF (proportion1 < LOWER_P_LIMIT) \/ (proportion1 > UPPER_P_LIMIT)
        THEN 1
        ELSE IF (proportion2 < LOWER_P_LIMIT) \/ (proportion2 > UPPER_P_LIMIT)
             THEN 2
             ELSE 0

positionOnBoundary(p) ==
    LET proportion1 == (p.e1 * ONE + p.xi1) \div elementsCount1
        proportion2 == (p.e2 * ONE + p.xi2) \div elementsCount2
    IN  IF (~loop1) /\ ((proportion1 < LOWER_P_LIMIT) \/ (proportion1 > UPPER_P_LIMIT))
        THEN 1
        ELSE IF (proportion2 < LOWER_P_LIMIT) \/ (proportion2 > UPPER_P_LIMIT)
             THEN 2
             ELSE 0

\* --------------------------------------------------------- _advancePosition
\* a version of limitIncrement that forgets to scale dxi2
limitIncrement_dxi1Only(dxi1, dxi2, MAX_MAG_DXI) ==
    LET magDxi == magnitude(<<dxi1, dxi2>>)
    IN  IF magDxi > MAX_MAG_DXI
        THEN << ScaleBy(dxi1, MAX_MAG_DXI, magDxi), dxi2 >>
        ELSE << dxi1, dxi2 >>

\* the increment after the limit to MAX_MAG_DXI
limitIncrement(dxi1, dxi2, MAX_MAG_DXI) ==
    LET magDxi == magnitude(<<dxi1, dxi2>>)
    IN  IF magDxi > MAX_MAG_DXI
        THEN << ScaleBy(dxi1, MAX_MAG_DXI, magDxi), ScaleBy(dxi2, MAX_MAG_DXI, magDxi) >>
        ELSE << dxi1, dxi2 >>

\* a version of wrapOrClamp in which the direction 1 test comes last, so that
\* boundary 1 wins where both directions are clamped
wrapOrClamp_edge1Last(cand1, cand2) ==
    LET out1 == (~loop1) /\ ((cand1 < 0) \/ (cand1 > ONE))
        out2 == (cand2 < 0) \/ (cand2 > ONE)
    IN  [proportion1 |-> IF loop1
                         THEN IF cand1 < 0 THEN cand1 + ONE
                              ELSE IF cand1 > 2 * ONE THEN cand1 - 2 * ONE ELSE cand1
                         ELSE IF cand1 < 0 THEN 0 ELSE IF cand1 > ONE THEN ONE ELSE cand1,
         proportion2 |-> IF cand2 < 0 THEN 0 ELSE IF cand2 > ONE THEN ONE ELSE cand2,
         onBoundary  |-> IF out1 THEN 1 ELSE IF out2 THEN 2 ELSE 0]

\* the candidate proportions wrapped (direction 1 with loop1) or clamped, and
\* the boundary code set on the way
wrapOrClamp(cand1, cand2) ==
    LET onBoundary1 == IF (~loop1) /\ ((cand1 < 0) \/ (cand1 > ONE)) THEN 1 ELSE 0
    IN  [proportion1 |-> IF loop1
                         THEN IF cand1 < 0 THEN cand1 + ONE
                              ELSE IF cand1 > 2 * ONE THEN cand1 - 2 * ONE ELSE cand1
                         ELSE IF cand1 < 0 THEN 0 ELSE IF cand1 > ONE THEN ONE ELSE cand1,
         proportion2 |-> IF cand2 < 0 THEN 0 ELSE IF cand2 > ONE THEN ONE ELSE cand2,
         onBoundary  |-> IF (cand2 < 0) \/ (cand2 > ONE) THEN 2 ELSE onBoundary1]

\* The record returned holds the four values the code returns (position,
\* onBoundary, dxi1, dxi2) and the locals the claims speak about: the limited
\* increment (sdxi1, sdxi2), the candidate proportions before wrapping or
\* clamping (cand1, cand2), the proportions handed to
\* createPositionProportion (proportion1, proportion2), and raised, which is
\* TRUE when that call's assertion fails.
advancePosition(startPosition, dxi1, dxi2, MAX_MAG_DXI) ==
    LET startProportion == getProportion(startPosition)
        sdxi   == limitIncrement(dxi1, dxi2, MAX_MAG_DXI)
        cand1  == startProportion[1] + sdxi[1] \div elementsCount1
        cand2  == startProportion[2] + sdxi[2] \div elementsCount2
        w      == wrapOrClamp(cand1, cand2)
        rdxi1  == IF (w.onBoundary # 0) /\ (~loop1)
                  THEN (w.proportion1 - startProportion[1]) \div elementsCount1
                  ELSE sdxi[1]
        rdxi2  == IF w.onBoundary # 0
                  THEN (w.proportion2 - startProportion[2]) \div elementsCount2
                  ELSE sdxi[2]
        raised == ~assertProportions(w.proportion1, w.proportion2)
    IN  [position   |-> IF raised THEN NoPosition
                        ELSE createPositionProportion(w.proportion1, w.proportion2),
         onBoundary |-> w.onBoundary, dxi1 |-> rdxi1, dxi2 |-> rdxi2,
         sdxi1 |-> sdxi[1], sdxi2 |-> sdxi[2], cand1 |-> cand1, cand2 |-> cand2,
         proportion1 |-> w.proportion1, proportion2 |-> w.proportion2,
         raised |-> raised]

\* ------------------------------------------------------ evaluateCoordinates
\* scaffoldmaker.utils.interpolation.getCubicHermiteBasis at xi = k/4, in
\* units of 1/64: f1 = 1 - 3xi^2 + 2xi^3, f2 = xi(xi - 1)^2,
\* f3 = xi^2(3 - 2xi), f4 = xi^2(xi - 1)
getCubicHermiteBasis(k) ==
    << 64 - 12*k*k + 2*k*k*k, k*k*k - 8*k*k + 16*k, 12*k*k - 2*k*k*k, k*k*k - 4*k*k >>

\* getCubicHermiteBasisDerivatives at xi = k/4, in units of 1/64:
\* df1 = -6xi + 6xi^2, df2 = 1 - 4xi + 3xi^2, df3 = 6xi - 6xi^2, df4 = -2xi + 3xi^2
getCubicHermiteBasisDerivatives(k) ==
    << 24*k*k - 96*k, 64 - 64*k + 12*k*k, 96*k - 24*k*k, 12*k*k - 32*k >>

\* the unit of every value evaluateCoordinates returns: 1/(64 * 64)
EvalScale == 64 * 64

\* xi values on which the basis functions above are defined
OnQuarterGrid(xi) == (4 * xi) % ONE = 0

\* a version of nodeIds without the wrap of the last element's second node
nodeIds_noWrap(p) ==
    LET nodesCount1 == IF loop1 THEN elementsCount1 ELSE elementsCount1 + 1
        e1   == p.e1 % elementsCount1
        nid0 == p.e2 * nodesCount1
        n1   == nid0 + e1
        n2   == n1 + 1
        n3   == n1 + nodesCount1
        n4   == n2 + nodesCount1
    IN  << n1, n2, n3, n4 >>

\* the four node indices (0-based, as in the code) evaluateCoordinates reads
nodeIds(p) ==
    LET nodesCount1 == IF loop1 THEN elementsCount1 ELSE elementsCount1 + 1
        e1   == p.e1 % elementsCount1
        nid0 == p.e2 * nodesCount1
        n1   == nid0 + e1
        n2   == IF loop1 /\ ((e1 + 1) = elementsCount1) THEN nid0 ELSE n1 + 1
        n3   == n1 + nodesCount1
        n4   == n2 + nodesCount1
    IN  << n1, n2, n3, n4 >>

\* a Python list index that does not raise IndexError
IndexInList(gn, list) == (gn >= -Len(list)) /\ (gn < Len(list))

\* list[gn] for a 0-based Python index
At(list, gn) == IF gn >= 0 THEN list[gn + 1] ELSE list[Len(list) + gn + 1]

\* sum over the four local nodes of w[ln] * values[nid[ln]][c]
WeightedSum(w, values, nid, c) ==
    w[1] * At(values, nid[1])[c] + w[2] * At(values, nid[2])[c]
    + w[3] * At(values, nid[3])[c] + w[4] * At(values, nid[4])[c]

\* tensor product of two 1-D bases: [a1*b1, a3*b1, a1*b3, a3*b3] and so on,
\* (i, j) naming the entries of the xi1 basis a taken for local nodes 1, 2
TensorProduct(a, b, i, j, m, n) ==
    << a[i] * b[m], a[j] * b[m], a[i] * b[n], a[j] * b[n] >>

evaluateCoordinates(p) ==
    LET nid == nodeIds(p)
        f1  == getCubicHermiteBasis((4 * p.xi1) \div ONE)
        f2  == getCubicHermiteBasis((4 * p.xi2) \div ONE)
        df1 == getCubicHermiteBasisDerivatives((4 * p.xi1) \div ONE)
        df2 == getCubicHermiteBasisDerivatives((4 * p.xi2) \div ONE)
        Value(a, b, c) ==
            WeightedSum(TensorProduct(a, b, 1, 3, 1, 3), nx, nid, c)
            + WeightedSum(TensorProduct(a, b, 2, 4, 1, 3), nd1, nid, c)
            + WeightedSum(TensorProduct(a, b, 1, 3, 2, 4), nd2, nid, c)
            + (IF nd12 # << >>
               THEN WeightedSum(TensorProduct(a, b, 2, 4, 2, 4), nd12, nid, c)
               ELSE 0)
        raised == \E ln \in 1..4 : ~IndexInList(nid[ln], nx)
    IN  [nid |-> nid, raised |-> raised,
         coordinates |-> IF raised THEN << >> ELSE [c \in 1..3 |-> Value(f1, f2, c)],
         derivative1 |-> IF raised THEN << >> ELSE [c \in 1..3 |-> Value(df1, f2, c)],
         derivative2 |-> IF raised THEN << >> ELSE [c \in 1..3 |-> Value(f1, df2, c)]]

\* --------------------------------------------------- increment_xi_on_square
\* the grid of the xi steps trackVector takes: 1/1000th of an element
TvUnit == ONE \div 1000

\* a / b as a proportion (scaled by ONE), for b on the TvUnit grid, |a| <= |b|
Ratio(a, b) == (a * (ONE \div TvUnit)) \div (b \div TvUnit)

\* proportion * d for a proportion scaled by ONE and d on the TvUnit grid
Times(prop, d) == (prop * (d \div TvUnit)) \div (ONE \div TvUnit)

\* a version of increment_xi_on_square that clips against the faces of
\* direction 1 alone
increment_xi_on_square_direction1Only(xi1, xi2, dxi1, dxi2) ==
    LET onxi1 == xi1 + dxi1
        onxi2 == xi2 + dxi2
        s0 == [nxi1 |-> onxi1, nxi2 |-> onxi2, proportion |-> ONE, faceNumber |-> 0]
        outside == (onxi1 < 0) \/ (onxi1 > ONE) \/ (onxi2 < 0) \/ (onxi2 > ONE)
        s1 == IF (onxi1 < 0) /\ (dxi1 < 0)
              THEN [nxi1 |-> 0, nxi2 |-> xi2 + Times(Ratio(-xi1, dxi1), dxi2),
                    proportion |-> Ratio(-xi1, dxi1), faceNumber |-> 1]
              ELSE IF (onxi1 > ONE) /\ (dxi1 > 0)
                   THEN [nxi1 |-> ONE, nxi2 |-> xi2 + Times(Ratio(ONE - xi1, dxi1), dxi2),
                         proportion |-> Ratio(ONE - xi1, dxi1), faceNumber |-> 2]
                   ELSE s0
    IN  IF outside THEN s1 ELSE s0

\* faceNumber is 0 where the code has None
increment_xi_on_square(xi1, xi2, dxi1, dxi2) ==
    LET onxi1 == xi1 + dxi1
        onxi2 == xi2 + dxi2
        s0 == [nxi1 |-> onxi1, nxi2 |-> onxi2, proportion |-> ONE, faceNumber |-> 0]
        outside == (onxi1 < 0) \/ (onxi1 > ONE) \/ (onxi2 < 0) \/ (onxi2 > ONE)
        s1 == IF (onxi1 < 0) /\ (dxi1 < 0)
              THEN IF Ratio(-xi1, dxi1) < s0.proportion
                   THEN [nxi1 |-> 0, nxi2 |-> xi2 + Times(Ratio(-xi1, dxi1), dxi2),
                         proportion |-> Ratio(-xi1, dxi1), faceNumber |-> 1]
                   ELSE s0
              ELSE IF (onxi1 > ONE) /\ (dxi1 > 0)
                   THEN IF Ratio(ONE - xi1, dxi1) < s0.proportion
                        THEN [nxi1 |-> ONE, nxi2 |-> xi2 + Times(Ratio(ONE - xi1, dxi1), dxi2),
                              proportion |-> Ratio(ONE - xi1, dxi1), faceNumber |-> 2]
                        ELSE s0
                   ELSE s0
        s2 == IF (onxi2 < 0) /\ (dxi2 < 0)
              THEN IF Ratio(-xi2, dxi2) < s1.proportion
                   THEN [nxi1 |-> xi1 + Times(Ratio(-xi2, dxi2), dxi1), nxi2 |-> 0,
                         proportion |-> Ratio(-xi2, dxi2), faceNumber |-> 3]
                   ELSE s1
              ELSE IF (onxi2 > ONE) /\ (dxi2 > 0)
                   THEN IF Ratio(ONE - xi2, dxi2) < s1.proportion
                        THEN [nxi1 |-> xi1 + Times(Ratio(ONE - xi2, dxi2), dxi1), nxi2 |-> ONE,
                              proportion |-> Ratio(ONE - xi2, dxi2), faceNumber |-> 4]
                        ELSE s1
                   ELSE s1
    IN  IF outside THEN s2 ELSE s0

\* ------------------------------------------------ updatePositionTofaceNumber
\* the position as the code leaves it, and the boundary code it returns
updatePositionTofaceNumber(p, faceNumber) ==
    IF faceNumber = 1
    THEN IF p.e1 > 0
         THEN [position |-> [p EXCEPT !.e1 = @ - 1, !.xi1 = ONE], onBoundary |-> 0]
         ELSE IF loop1
              THEN [position |-> [p EXCEPT !.e1 = elementsCount1 - 1, !.xi1 = ONE], onBoundary |-> 0]
              ELSE [position |-> [p EXCEPT !.xi1 = 0], onBoundary |-> 1]
    ELSE IF faceNumber = 2
    THEN IF p.e1 < elementsCount1 - 1
         THEN [position |-> [p EXCEPT !.e1 = @ + 1, !.xi1 = 0], onBoundary |-> 0]
         ELSE IF loop1
              THEN [position |-> [p EXCEPT !.e1 = 0, !.xi1 = 0], onBoundary |-> 0]
              ELSE [position |-> [p EXCEPT !.xi1 = ONE], onBoundary |-> 1]
    ELSE IF faceNumber = 3
    THEN IF p.e2 > 0
         THEN [position |-> [p EXCEPT !.e2 = @ - 1, !.xi2 = ONE], onBoundary |-> 0]
         ELSE [position |-> [p EXCEPT !.xi2 = 0], onBoundary |-> 2]
    ELSE IF faceNumber = 4
    THEN IF p.e2 < elementsCount2 - 1
         THEN [position |-> [p EXCEPT !.e2 = @ + 1, !.xi2 = 0], onBoundary |-> 0]
         ELSE [position |-> [p EXCEPT !.xi2 = ONE], onBoundary |-> 2]
    ELSE [position |-> p, onBoundary |-> 0]

\* -------------------------------------------------------------- trackVector
\* MAX_MAG_DXI of trackVector, 0.02
TRACK_MAX_MAG_DXI == ONE \div 50

\* The geometry enters trackVector through calculate_surface_delta_xi alone.
\* The model takes the surface to have unit-length orthogonal derivatives
\* inside every element, so that arc length equals xi length, and takes as an
\* input the xi step of magnitude MAX_MAG_DXI the predictor-corrector lines
\* arrive at in each element: field[1] in the elements with even e1, field[2]
\* in those with odd e1 (a surface folded along the edge between two
\* elements gives opposite steps on the two sides of the edge).  <<0, 0>>
\* stands for calculate_surface_delta_xi returning (0, 0).
stepAt(field, p) ==
    IF (p.e1 % elementsCount1) % 2 = 0 THEN field[1] ELSE field[2]

\* one pass of the while loop: the locals after it, with pc "loop" when the
\* loop goes on, "done" when trackVector returns position, "raised" when a
\* division by zero ends it
trackVectorIteration(t) ==
    LET p    == t.position
        step == stepAt(t.field, p)
        dxi1 == step[1] * TvUnit
        dxi2 == step[2] * TvUnit
        inc  == increment_xi_on_square(p.xi1, p.xi2, dxi1, dxi2)
        b    == [p EXCEPT !.xi1 = inc.nxi1, !.xi2 = inc.nxi2]
        arcLength     == Times(inc.proportion, TRACK_MAX_MAG_DXI)
        distanceLimit == t.useTrackDistance - t.useTrackDistance \div 10000
        remaining     == t.useTrackDistance - t.distance
        u    == updatePositionTofaceNumber(b, inc.faceNumber)
    IN  IF step = <<0, 0>>
        THEN [t EXCEPT !.pc = "raised"]
        ELSE IF t.distance + arcLength >= distanceLimit
        THEN IF arcLength = 0
             THEN [t EXCEPT !.pc = "raised"]
             ELSE [t EXCEPT !.pc = "done",
                            !.position = [p EXCEPT
                                !.xi1 = @ + (remaining * step[1]) \div (TRACK_MAX_MAG_DXI \div TvUnit),
                                !.xi2 = @ + (remaining * step[2]) \div (TRACK_MAX_MAG_DXI \div TvUnit)]]
        ELSE IF (arcLength = 0) /\ (inc.faceNumber = 0)
        THEN [t EXCEPT !.pc = "done", !.position = b]
        ELSE IF (inc.faceNumber # 0) /\ (u.onBoundary # 0)
        THEN [t EXCEPT !.pc = "done", !.position = u.position,
                       !.distance = @ + arcLength]
        ELSE [t EXCEPT !.position = u.position, !.distance = @ + arcLength]

\* a version of startPositionAfter in which the local position of trackVector
\* is the caller's object itself
startPositionAfter_sameObject(startPosition, localPosition) == localPosition

\* position = copy.deepcopy(startPosition): the assignments trackVector and
\* updatePositionTofaceNumber make to the fields of the local position leave
\* the object of the caller as it was
startPositionAfter(startPosition, localPosition) == startPosition

\* ----------------------------------------------------------------- __init__
\* the loop over nx that finds _xMin and _xMax, and _xRange from them
computeRange(list) ==
    LET Values(c) == { list[n][c] : n \in 1..Len(list) }
        xMin(c) == CHOOSE m \in Values(c) : \A v \in Values(c) : m <= v
        xMax(c) == CHOOSE m \in Values(c) : \A v \in Values(c) : m >= v
    IN  [c \in 1..3 |-> xMax(c) - xMin(c)]

\* ------------------------------------------------------------ createMirrorX
\* the index oi of the original node read for mirrored node (n2, n1)
mirrorNodeIndex(n2, n1) ==
    n2 * (elementsCount1 + (IF loop1 THEN 0 ELSE 1)) + elementsCount1 - n1

\* The surface createMirrorX returns.  oi lists the index read for each node
\* in the order the nodes are appended; raised is TRUE when one of them is
\* outside the node list (IndexError), and then no surface is returned.
createMirrorX ==
    LET nodesCount1 == elementsCount1 + (IF loop1 THEN 0 ELSE 1)
        nodesCount2 == elementsCount2 + 1
        count  == nodesCount1 * nodesCount2
        oi     == [k \in 1..count |-> mirrorNodeIndex((k - 1) \div nodesCount1, (k - 1) % nodesCount1)]
        raised == \E k \in 1..count : ~IndexInList(oi[k], nx)
        Mirrored(list, s1, s2, s3) ==
            IF raised THEN << >>
            ELSE [k \in 1..count |-> << s1 * At(list, oi[k])[1], s2 * At(list, oi[k])[2],
                                        s3 * At(list, oi[k])[3] >>]
    IN  [raised |-> raised, oi |-> oi,
         elementsCount1 |-> elementsCount1, elementsCount2 |-> elementsCount2,
         loop1 |-> loop1,
         nx   |-> Mirrored(nx, -1, 1, 1),
         nd1  |-> Mirrored(nd1, 1, -1, -1),
         nd2  |-> Mirrored(nd2, -1, 1, 1),
         \* nd12 = [] if self._nd12 else None; the loop appends to it under
         \* 'if nd12:', a test of the new list, which is empty on every pass
         nd12IsNone |-> (nd12 = << >>),
         nd12 |-> << >>]

\* ----------------------------------------------- calculate_surface_delta_xi
\* the unit of the values calculate_surface_delta_xi returns: 1/10
DeltaXiScale == 2 * 5

dotproduct(a, b) == a[1] * b[1] + a[2] * b[2] + a[3] * b[3]

\* magnitude(direction) / magnitude(d), in units of 1/DeltaXiScale
magnitudeRatio(direction, d) ==
    ISqrtFrom((DeltaXiScale * DeltaXiScale * dotproduct(direction, direction))
              \div dotproduct(d, d), 0)

\* the solve without the coupling term a12 of the normal equations
calculate_surface_delta_xi_uncoupled(d1, d2, direction) ==
    LET a11  == dotproduct(d1, d1)
        a22  == dotproduct(d2, d2)
        b1   == dotproduct(d1, direction)
        b2   == dotproduct(d2, direction)
    IN  IF a11 * a22 > 0
        THEN << (DeltaXiScale * b1) \div a11, (DeltaXiScale * b2) \div a22 >>
        ELSE << 0, 0 >>

\* d1, d2 and direction are vectors of small whole numbers
calculate_surface_delta_xi(d1, d2, direction) ==
    LET a11  == dotproduct(d1, d1)
        a12  == dotproduct(d1, d2)
        a22  == dotproduct(d2, d2)
        b1   == dotproduct(d1, direction)
        b2   == dotproduct(d2, direction)
        deta == a11 * a22 - a12 * a12
    IN  IF deta > 0
        THEN << (DeltaXiScale * (a22 * b1 - a12 * b2)) \div deta,
                (DeltaXiScale * (a11 * b2 - a12 * b1)) \div deta >>
        ELSE IF b2 # 0
             THEN << 0, (IF b2 > 0 THEN 1 ELSE -1) * magnitudeRatio(direction, d2) >>
             ELSE IF b1 # 0
                  THEN << (IF b1 > 0 THEN 1 ELSE -1) * magnitudeRatio(direction, d1), 0 >>
                  ELSE << 0, 0 >>

\* ------------------------------------------------------ findNearestPosition
\* XI_TOL of the iterative queries, 1.0E-7
XI_TOL == ONE \div 10000000

\* MAX_MAG_DXI of findNearestPosition, findIntersectionPoint and
\* findNearestPositionOnCurve, 0.5
QUERY_MAX_MAG_DXI == ONE \div 2

\* range(100) of the for loops of the three queries
IterationLimit == 100

\* magnitude(v) < tol for a 2-vector of xi increments of any size and a
\* tolerance of a few units (the squares are taken only of values under it)
magnitudeBelow(v, tol) ==
    /\ Abs(v[1]) < tol /\ Abs(v[2]) < tol
    /\ v[1] * v[1] + v[2] * v[2] < tol * tol

\* the xi displacement between a start position and the result of
\* _advancePosition on it, a wrap by whole periods left out
displacement(startPosition, r) ==
    LET sp == getProportion(startPosition)
    IN  << ((IF loop1 THEN r.cand1 ELSE r.proportion1) - sp[1]) * elementsCount1,
           (r.proportion2 - sp[2]) * elementsCount2 >>

\* One pass of the for loop of findNearestPosition.  Lines 737-749 compute the
\* increment (dxi1, dxi2) from the geometry and the previous increment; the
\* model takes it as an input.  pc is "loop" while the loop goes on and
\* "returned" when findNearestPosition returns position; converged tells the
\* break from the end of range(100).
findNearestPositionIteration(f, dxi1, dxi2) ==
    LET r         == advancePosition(f.position, dxi1, dxi2, QUERY_MAX_MAG_DXI)
        converged == magnitudeBelow(<< r.dxi1, r.dxi2 >>, XI_TOL)
    IN  [f EXCEPT !.it = @ + 1,
                  !.from = f.position,
                  !.position = r.position,
                  !.dxi = << dxi1, dxi2 >>,
                  !.adxi = << r.dxi1, r.dxi2 >>,
                  !.applied = displacement(f.position, r),
                  !.converged = converged,
                  !.pc = IF converged \/ (f.it + 1 = IterationLimit)
                         THEN "returned" ELSE "loop"]

\* ---------------------------------------------------- findIntersectionPoint
\* X_TOL = 1.0E-6 * max(self._xRange), in units of 1.0E-6 of the unit of the
\* node coordinates, which is also the unit of the residual mag_r
X_TOL ==
    CHOOSE m \in { xRange[c] : c \in 1..3 } : \A c \in 1..3 : m >= xRange[c]

\* a version of intersectionFound that takes a residual equal to X_TOL
intersectionFound_inclusive(mag_r) == mag_r <= X_TOL

\* the test of line 434
intersectionFound(mag_r) == mag_r < X_TOL

\* x of self.evaluateCoordinates(position): the position it is evaluated at
\* and, where the basis functions of the model are defined, the coordinates
evaluationAt(p) ==
    [at |-> p,
     coordinates |-> IF OnQuarterGrid(p.xi1) /\ OnQuarterGrid(p.xi2)
                     THEN evaluateCoordinates(p).coordinates ELSE << >>]

\* the tuple returned when no intersection is found: None, None, None, None, 0
NotFound ==
    [position |-> NoPosition, otherPosition |-> NoPosition,
     x |-> [at |-> NoPosition, coordinates |-> << >>], tangent |-> FALSE,
     onBoundary |-> 0]

\* MAG_JOLT_DXI, 0.1
MAG_JOLT_DXI == ONE \div 10

\* the record of a pass without a stagnation event
NoJolt ==
    [branch |-> "none", index |-> 0, case |-> 0, raw |-> <<0, 0>>,
     jolt_dxi |-> <<0, 0>>, outcome |-> "none", r_dot_n_signed |-> 0,
     jolt_r_dot_n_signed |-> 0, computed |-> <<0, 0>>, step |-> <<0, 0>>,
     onBoundary |-> 0]

\* Lines 491, 497 and 516: which jolt a stagnation event makes, "self" for the
\* jolt along the edge of this surface (lines 492-496), "other" for the jolt
\* along the edge of the other surface (lines 498-515), "interior" for lines
\* 517-521
joltBranch(onBoundary, onOtherBoundary, jolt_index) ==
    IF (onBoundary # 0) /\ ((onOtherBoundary = 0) \/ (jolt_index % 4 < 2)) THEN "self"
    ELSE IF onOtherBoundary # 0 THEN "other"
    ELSE "interior"

\* jolt_case of lines 492, 498 and 517
joltCase(branch, jolt_index) ==
    IF branch = "interior" THEN jolt_index % 4 ELSE jolt_index % 2

\* the jolt increment before _advancePosition: lines 493-494, 499-502 and
\* 518-519; edge is the boundary code of the edge jolted along
joltRaw(branch, edge, jolt_case) ==
    IF branch = "interior"
    THEN << IF jolt_case = 0 THEN -MAG_JOLT_DXI
            ELSE IF jolt_case = 2 THEN MAG_JOLT_DXI ELSE 0,
            IF jolt_case = 1 THEN -MAG_JOLT_DXI
            ELSE IF jolt_case = 3 THEN MAG_JOLT_DXI ELSE 0 >>
    ELSE << IF edge = 1 THEN 0 ELSE IF jolt_case = 0 THEN -MAG_JOLT_DXI ELSE MAG_JOLT_DXI,
            IF edge = 2 THEN 0 ELSE IF jolt_case = 0 THEN -MAG_JOLT_DXI ELSE MAG_JOLT_DXI >>

\* jolt_dxi1, jolt_dxi2 as line 522 tests them.  a is what _advancePosition
\* returns for the jolt increment (lines 495, 503 and 520), nearest the
\* position self.findNearestPosition returns at line 508, as an advance from
\* the position.
joltIncrement(branch, startPosition, a, nearest) ==
    IF a.raised \/ ((branch = "other") /\ nearest.raised) THEN <<0, 0>>
    ELSE IF branch = "other"
    THEN IF << a.dxi1, a.dxi2 >> # <<0, 0>>
         THEN displacement(startPosition, nearest) ELSE <<0, 0>>
    ELSE << a.dxi1, a.dxi2 >>

\* Lines 522-546: "zero" when the jolt increment is zero, "cross", "lower" or
\* "ignore" for the three branches of lines 530-546, "raised" for an
\* arithmetic or assertion error
joltOutcome(asserted, jolt_dxi, r_dot_n_signed, jolt_r_dot_n_signed) ==
    IF asserted THEN "raised"
    ELSE IF jolt_dxi = <<0, 0>> THEN "zero"
    ELSE IF r_dot_n_signed * jolt_r_dot_n_signed <= 0
    THEN IF Abs(r_dot_n_signed) + Abs(jolt_r_dot_n_signed) = 0 THEN "raised" ELSE "cross"
    ELSE IF Abs(jolt_r_dot_n_signed) < Abs(r_dot_n_signed) THEN "lower"
    ELSE "ignore"

\* the increment line 555 hands to _advancePosition after a stagnation event
joltStep(outcome, jolt_dxi, r_dot_n_signed, jolt_r_dot_n_signed, computed) ==
    IF outcome = "cross"
    THEN << (jolt_dxi[1] * Abs(r_dot_n_signed))
                \div (Abs(r_dot_n_signed) + Abs(jolt_r_dot_n_signed)),
            (jolt_dxi[2] * Abs(r_dot_n_signed))
                \div (Abs(r_dot_n_signed) + Abs(jolt_r_dot_n_signed)) >>
    ELSE IF outcome = "lower" THEN jolt_dxi
    ELSE computed

\* the record of a stagnation event, from the jolt increment on
joltRecord(jolt_index, onBoundary, branch, raw, jolt_dxi, outcome, residuals, computed) ==
    [branch |-> branch, index |-> jolt_index, case |-> joltCase(branch, jolt_index),
     raw |-> raw, jolt_dxi |-> jolt_dxi, outcome |-> outcome,
     r_dot_n_signed |-> residuals[1], jolt_r_dot_n_signed |-> residuals[2],
     computed |-> computed,
     step |-> joltStep(outcome, jolt_dxi, residuals[1], residuals[2], computed),
     onBoundary |-> onBoundary]

joltAdvanced(f, onBoundary, branch, raw, a, nearest, jolt_dxi, residuals, computed) ==
    joltRecord(f.jolt_index, onBoundary, branch, raw, jolt_dxi,
               joltOutcome(a.raised \/ ((branch = "other") /\ nearest.raised), jolt_dxi,
                           residuals[1], residuals[2]),
               residuals, computed)

joltFrom(f, otherPosition, onBoundary, branch, raw, a, nearest, residuals, computed) ==
    joltAdvanced(f, onBoundary, branch, raw, a, nearest,
                 joltIncrement(branch, f.position, a, nearest), residuals, computed)

joltAlong(f, otherPosition, onBoundary, branch, raw, nearestDxi, residuals, computed) ==
    joltFrom(f, otherPosition, onBoundary, branch, raw,
             advancePosition(IF branch = "other" THEN otherPosition ELSE f.position,
                             raw[1], raw[2], QUERY_MAX_MAG_DXI),
             advancePosition(f.position, nearestDxi[1], nearestDxi[2], QUERY_MAX_MAG_DXI),
             residuals, computed)

joltOn(f, otherPosition, onBoundary, onOtherBoundary, branch, nearestDxi, residuals, computed) ==
    joltAlong(f, otherPosition, onBoundary, branch,
              joltRaw(branch, IF branch = "other" THEN onOtherBoundary ELSE onBoundary,
                      joltCase(branch, f.jolt_index)),
              nearestDxi, residuals, computed)

joltAt(f, otherPosition, onBoundary, onOtherBoundary, nearestDxi, residuals, computed) ==
    joltOn(f, otherPosition, onBoundary, onOtherBoundary,
           joltBranch(onBoundary, onOtherBoundary, f.jolt_index),
           nearestDxi, residuals, computed)

\* Lines 489-547, entered when the magnitude of the computed increment is
\* below 100 * XI_TOL.  residuals, the signed out-of-plane residuals
\* (r_dot_n_signed, jolt_r_dot_n_signed) at the position and at the jolted
\* position, and nearestDxi, the increment to the position
\* self.findNearestPosition returns at line 508, come from the geometry and
\* are inputs.  In the record returned raw is the jolt increment before
\* _advancePosition and jolt_dxi the one line 522 tests; step is the
\* increment line 555 hands to _advancePosition.
joltEvaluation(f, otherPosition, computed, residuals, nearestDxi) ==
    joltAt(f, otherPosition, positionOnBoundary(f.position),
           positionOnBoundary(otherPosition), nearestDxi, residuals, computed)

\* lines 425-442 and 555-567 of one pass, for the increment step handed to
\* _advancePosition, r what it returns, and j the record of the stagnation
\* event of the pass (NoJolt without one)
findIntersectionPointAdvance(f, otherPosition, mag_r, j, r, mag_dxiBelow) ==
    IF intersectionFound(mag_r)
    THEN [f EXCEPT !.pc = "found", !.it = @ + 1,
                   !.otherPosition = otherPosition, !.mag_r = mag_r,
                   !.jolt = NoJolt,
                   !.result = [position |-> f.position, otherPosition |-> otherPosition,
                               x |-> evaluationAt(f.position), tangent |-> TRUE,
                               onBoundary |-> positionOnBoundary(f.position)]]
    ELSE IF j.outcome = "raised"
    THEN [f EXCEPT !.pc = "raised", !.it = @ + 1,
                   !.otherPosition = otherPosition, !.mag_r = mag_r,
                   !.stagnations = @ + 1, !.jolt = j]
    ELSE [f EXCEPT !.pc = IF mag_dxiBelow \/ (f.it + 1 = IterationLimit)
                          THEN "notfound" ELSE "loop",
                   !.it = @ + 1,
                   !.from = f.position,
                   !.position = r.position,
                   !.otherPosition = otherPosition, !.mag_r = mag_r,
                   !.adxi = << r.dxi1, r.dxi2 >>,
                   !.applied = displacement(f.position, r),
                   !.insufficient = mag_dxiBelow,
                   !.stagnations = IF j.branch # "none" THEN @ + 1 ELSE @,
                   !.jolt_index = IF j.outcome \in { "cross", "lower", "ignore" }
                                  THEN @ + 1 ELSE @,
                   !.jolt = IF j.branch # "none" THEN j ELSE NoJolt,
                   !.result = IF mag_dxiBelow \/ (f.it + 1 = IterationLimit)
                              THEN NotFound ELSE f.result]

findIntersectionPointReturned(f, otherPosition, mag_r, j, r) ==
    findIntersectionPointAdvance(f, otherPosition, mag_r, j, r,
                                 magnitudeBelow(<< r.dxi1, r.dxi2 >>, XI_TOL))

findIntersectionPointJolted(f, otherPosition, mag_r, j) ==
    findIntersectionPointReturned(f, otherPosition, mag_r, j,
        advancePosition(f.position, j.step[1], j.step[2], QUERY_MAX_MAG_DXI))

\* One pass of the for loop of findIntersectionPoint.  otherPosition is what
\* otherTrackSurface.findNearestPosition returns at line 427, mag_r the
\* residual of line 431 and (dxi1, dxi2) the increment lines 443-488 compute
\* (after the oscillation control of lines 548-554 where its magnitude is
\* 100 * XI_TOL or more); with jolt, the signed residuals and the nearest
\* position of a stagnation event, they come from the geometry of the two
\* surfaces and are inputs.  pc is "loop" while the loop goes on, "found"
\* after the return of line 442, "notfound" after the return of line 567 and
\* "raised" when an exception ends the call.  stagnations counts the passes
\* that entered line 490.
findIntersectionPointIteration(f, otherPosition, mag_r, dxi1, dxi2, jolt) ==
    findIntersectionPointJolted(f, otherPosition, mag_r,
        IF magnitudeBelow(<< dxi1, dxi2 >>, 100 * XI_TOL)
        THEN joltEvaluation(f, otherPosition, << dxi1, dxi2 >>, << jolt[1], jolt[2] >>, jolt[3])
        ELSE [NoJolt EXCEPT !.step = << dxi1, dxi2 >>])

\* ---------------------------------------------------- findIntersectionCurve
\* findIntersectionCurve is followed on the surfaces whose intersection with
\* the other surface is a line of constant proportion 2, run along direction 1
\* by elements of unit length: straight on a surface without loop1, where the
\* other surface covers the proportions 1 from otherLo to otherHi of it, and
\* closed on a surface with loop1, where the other surface covers all of it.
\* A point x of the line is given by its proportion 1 (on a closed line
\* modulo ONE) and the unit tangent t by its sign along direction 1.

\* X_TOL on the line, whose extent is ONE: 1.0E-6 * ONE
CURVE_X_TOL == ONE \div 1000000

\* magnitude(sub(x1, x2)) for two points of the line
curveDistance(x1, x2) ==
    IF loop1
    THEN LET d == (x1 - x2) % ONE IN IF d > ONE - d THEN ONE - d ELSE d
    ELSE Abs(x1 - x2)

\* What findIntersectionPoint returns for a start position nextPosition on
\* the line when it finds an intersection: the start position itself where the
\* other surface covers it, else the nearest end of the cover.
intersectionPointOnCurve(f, nextPosition) ==
    LET pg  == getProportion(nextPosition)
        lo  == IF f.otherLo > 0 THEN f.otherLo ELSE 0
        hi  == IF f.otherHi < ONE THEN f.otherHi ELSE ONE
        at  == IF loop1 THEN pg[1]
               ELSE IF pg[1] < lo THEN lo ELSE IF pg[1] > hi THEN hi ELSE pg[1]
        pos == IF at = pg[1] THEN nextPosition ELSE createPositionProportion(at, pg[2])
    IN  [position |-> pos,
         x |-> IF loop1 THEN at % ONE ELSE at,
         t |-> f.t,
         onBoundary |-> positionOnBoundary(pos),
         onOtherBoundary |-> IF (~loop1) /\ ((at = f.otherLo) \/ (at = f.otherHi)) THEN 1 ELSE 0]

\* self.findNearestParameterPosition(startX) for startX the point of the
\* surface at startPosition: the node nearest to it, the first of the nearest
\* ones in the order of the loops over n2 and n1, as a position of this
\* surface.  The elements have unit length in both directions, so that the
\* nearest node is the nearest in each direction.
findNearestParameterPosition(startPosition) ==
    LET n1Limit == IF loop1 THEN elementsCount1 ELSE elementsCount1 + 1
        at1 == (startPosition.e1 % elementsCount1) * ONE + startPosition.xi1
        at2 == startPosition.e2 * ONE + startPosition.xi2
        distance1(n1) ==
            LET d == Abs(n1 * ONE - at1)
            IN  IF loop1 /\ (d > elementsCount1 * ONE - d) THEN elementsCount1 * ONE - d ELSE d
        distance2(n2) == Abs(n2 * ONE - at2)
        nearest_n1 == CHOOSE n1 \in 0..(n1Limit - 1) :
                         \A m \in 0..(n1Limit - 1) :
                            (distance1(n1) < distance1(m))
                            \/ ((distance1(n1) = distance1(m)) /\ (n1 <= m))
        nearest_n2 == CHOOSE n2 \in 0..elementsCount2 :
                         \A m \in 0..elementsCount2 :
                            (distance2(n2) < distance2(m))
                            \/ ((distance2(n2) = distance2(m)) /\ (n2 <= m))
    IN  createPositionProportion((nearest_n1 * ONE) \div elementsCount1,
                                 (nearest_n2 * ONE) \div elementsCount2)

\* otherTrackSurface.findNearestParameterPosition(targetx)[0] for the node
\* (n1, n2) of the other surface, a surface without loop1 of
\* otherElementsCount1 x otherElementsCount2 elements
otherNodePosition(otherElementsCount1, otherElementsCount2, n1, n2) ==
    TrackSurfacePosition(IF n1 < otherElementsCount1 THEN n1 ELSE otherElementsCount1 - 1,
                         IF n2 < otherElementsCount2 THEN n2 ELSE otherElementsCount2 - 1,
                         IF n1 < otherElementsCount1 THEN 0 ELSE ONE,
                         IF n2 < otherElementsCount2 THEN 0 ELSE ONE)

\* otherTrackSurface.evaluateCoordinates(otherPosition) raises IndexError:
\* the index n3 = (e2 + 1) * nodesCount1 + e1 % elementsCount1 is outside the
\* node list of the other surface
otherEvaluateRaises(f, otherPosition) ==
    (otherPosition.e2 + 1) * (f.otherElementsCount1 + 1)
        + (otherPosition.e1 % f.otherElementsCount1)
    >= (f.otherElementsCount1 + 1) * (f.otherElementsCount2 + 1)

\* the test of lines 631-632
boundaryReached(pointCount, onBoundary, onOtherBoundary, crossBoundary) ==
    /\ pointCount > 1
    /\ (onBoundary # 0) \/ (onOtherBoundary # 0)
    /\ (crossBoundary # 0) \/ ~((onBoundary # 0) /\ (onOtherBoundary # 0))

\* The loop test of lines 647-659 on the last two points of px: dscale is the
\* arc length from px[-2] to px[-1] (computeCubicHermiteArcLength), tx the
\* point a fraction xi of it along (interpolateCubicHermite), for xi in
\* xiLoopSamples = 1/4, 2/4, 3/4, 4/4; the test is distance < 0.2 * dscale.
loopClosed(px, t) ==
    LET x1     == px[Len(px) - 1]
        x2     == px[Len(px)]
        dscale == IF loop1 THEN ((x2 - x1) * t) % ONE ELSE Abs(x2 - x1)
        tx(k)  == LET v == x1 + t * ((k * dscale) \div 4) IN IF loop1 THEN v % ONE ELSE v
    IN  \E k \in 1..4 : 5 * (curveDistance(tx(k), px[1]) \div 100) < dscale \div 100

\* the test of line 633, made after x was put on px: magnitude(sub(x, px[-2]))
\* < X_TOL, x being px[-1] before the first boundary and px[0] after it
duplicateAtEnd(px, boundaryCount) ==
    LET x == IF boundaryCount = 0 THEN px[Len(px)] ELSE px[1]
    IN  curveDistance(x, px[Len(px) - 1]) < CURVE_X_TOL

\* the tuple returned when there is no intersection: None, None, None, False
NoCurve == [cx |-> << >>, cd1 |-> << >>, cProportions |-> << >>, loop |-> FALSE, none |-> TRUE]

\* One pass of the while loop of findIntersectionCurve; found tells whether
\* the call of findIntersectionPoint at line 616 found an intersection.  On
\* the first pass that call evaluates the other surface at otherStartPosition
\* (lines 427-429).
\* exit names the way the loop was left and ends lists the points at which a
\* boundary was counted.  popped tells which point px.pop() of line 634
\* removed on this pass: "new" for the point just found (it was appended at
\* the end), "other" for the point at the far end from the one just found (it
\* was inserted at the front), "none" when nothing was removed.
findIntersectionCurveIteration(f, found) ==
    IF (f.pointCount = 0) /\ (f.boundaryCount = 0)
       /\ otherEvaluateRaises(f, f.otherStartPosition)
    THEN [f EXCEPT !.pc = "raised", !.exit = "none", !.error = "IndexError"]
    ELSE IF ~found
    THEN IF f.pointCount = 0
         THEN [f EXCEPT !.pc = "returned", !.exit = "notfound", !.result = NoCurve]
         ELSE [f EXCEPT !.pc = "raised", !.exit = "notfound", !.error = "AssertionError"]
    ELSE
    LET ip    == intersectionPointOnCurve(f, f.nextPosition)
        px1   == IF f.boundaryCount = 0 THEN Append(f.px, ip.x) ELSE << ip.x >> \o f.px
        pd11  == IF f.boundaryCount = 0 THEN Append(f.pd1, ip.t) ELSE << ip.t >> \o f.pd1
        atBoundary == boundaryReached(f.pointCount + 1, ip.onBoundary, ip.onOtherBoundary,
                                      f.crossBoundary)
        pop   == atBoundary /\ duplicateAtEnd(px1, f.boundaryCount)
        px2   == IF pop THEN SubSeq(px1, 1, Len(px1) - 1) ELSE px1
        pd12  == IF pop THEN SubSeq(pd11, 1, Len(pd11) - 1) ELSE pd11
        boundaryCount2 == IF atBoundary THEN f.boundaryCount + 1 ELSE f.boundaryCount
        ends2 == IF atBoundary THEN Append(f.ends, ip.x) ELSE f.ends
        position2 == IF atBoundary THEN f.startPosition ELSE ip.position
        t     == IF atBoundary THEN pd12[1] ELSE ip.t
        loop  == (boundaryCount2 = 0) /\ (Len(px2) > 2) /\ loopClosed(px2, t)
        r     == advancePosition(position2, (IF boundaryCount2 = 1 THEN -t ELSE t) * ONE, 0,
                                 f.MAX_MAG_DXI)
        popped == IF ~pop THEN "none" ELSE IF f.boundaryCount = 0 THEN "new" ELSE "other"
    IN  IF boundaryCount2 = 2
        THEN [f EXCEPT !.pc = "resample", !.exit = "boundary", !.px = px2, !.pd1 = pd12,
                       !.pointCount = Len(px2), !.boundaryCount = boundaryCount2,
                       !.ends = ends2, !.position = ip.position, !.popped = popped]
        ELSE IF loop
        THEN [f EXCEPT !.pc = "resample", !.exit = "loop", !.loop = TRUE,
                       !.px = SubSeq(px2, 1, Len(px2) - 1),
                       !.pd1 = SubSeq(pd12, 1, Len(pd12) - 1),
                       !.pointCount = Len(px2) - 1, !.position = ip.position,
                       !.popped = popped]
        ELSE [f EXCEPT !.px = px2, !.pd1 = pd12, !.pointCount = Len(px2),
                       !.boundaryCount = boundaryCount2, !.ends = ends2,
                       !.popped = popped,
                       !.position = position2,
                       !.nextPosition = r.position, !.crossBoundary = r.onBoundary]

\* scaffoldmaker.utils.interpolation.sampleCubicHermiteCurves on two or more
\* points of the line: elementsCountOut + 1 points evenly spaced in arc length
\* from the first point to the last, once round the line when closed is TRUE
sampleCubicHermiteCurves(px, t, elementsCountOut, closed) ==
    [n \in 1..(elementsCountOut + 1) |->
        IF closed
        THEN (px[1] + t * (((n - 1) * ONE) \div elementsCountOut)) % ONE
        ELSE px[1] + ((n - 1) * (px[Len(px)] - px[1])) \div elementsCountOut]

\* a version of resampledPoints that keeps the repeated start point
resampledPoints_keepRepeat(px, t, curveElementsCount, loop) ==
    sampleCubicHermiteCurves(IF loop THEN Append(px, px[1]) ELSE px, t, curveElementsCount, loop)

\* lines 672-678: the start point is repeated at the end of a closed chain,
\* the chain is resampled, and the repeated point is removed again
resampledPoints(px, t, curveElementsCount, loop) ==
    LET sampled == sampleCubicHermiteCurves(IF loop THEN Append(px, px[1]) ELSE px, t,
                                            curveElementsCount, loop)
    IN  IF loop THEN SubSeq(sampled, 1, Len(sampled) - 1) ELSE sampled

\* Lines 672-678.  sampleRaises is the outcome of sampleCubicHermiteCurves on
\* a chain of one point, which it is not written for.
findIntersectionCurveSample(f, curveElementsCount, sampleRaises) ==
    IF (~f.loop) /\ (Len(f.px) < 2) /\ sampleRaises
    THEN [f EXCEPT !.pc = "raised", !.error = "sampleCubicHermiteCurves",
                   !.curveElementsCount = curveElementsCount]
    ELSE [f EXCEPT !.pc = "reproject", !.curveElementsCount = curveElementsCount,
                   !.nx = resampledPoints(f.px, f.t, curveElementsCount, f.loop)]

\* One pass of the for loop of lines 682-688, and after the last pass lines
\* 689-693 (the smoothing returns as many derivatives as it is given).  found
\* tells whether the call of findIntersectionPoint at line 685 found an
\* intersection; when it did not, position is None and getProportion raises.
findIntersectionCurveReproject(f, found) ==
    LET n   == Len(f.cx) + 1
        nearest == createPositionProportion(f.nx[n], getProportion(f.startPosition)[2])
        ip  == intersectionPointOnCurve(f, nearest)
        cx  == Append(f.cx, ip.x)
        cd1 == Append(f.cd1, ip.t)
        cProportions == Append(f.cProportions, getProportion(ip.position))
    IN  IF ~found
        THEN [f EXCEPT !.pc = "raised", !.error = "AttributeError"]
        ELSE IF n < Len(f.nx)
        THEN [f EXCEPT !.cx = cx, !.cd1 = cd1, !.cProportions = cProportions,
                       !.position = ip.position]
        ELSE [f EXCEPT !.pc = "returned", !.cx = cx, !.cd1 = cd1,
                       !.cProportions = cProportions, !.position = ip.position,
                       !.result = [cx |-> cx, cd1 |-> cd1, cProportions |-> cProportions,
                                   loop |-> f.loop, none |-> FALSE]]

\* ----------------------------------------------- findNearestPositionOnCurve
\* scaffoldmaker.utils.interpolation.incrementXiOnLine: xi + dxi limited to
\* [0, 1], and the end passed (1: xi = 0, 2: xi = 1, 0: none)
incrementXiOnLine(xi, dxi) ==
    IF xi + dxi < 0 THEN << 0, 1 >>
    ELSE IF xi + dxi > ONE THEN << ONE, 2 >>
    ELSE << xi + dxi, 0 >>

\* scaffoldmaker.utils.interpolation.updateCurveLocationTofaceNumber: the
\* location moved to the neighbouring element of the curve, round the curve
\* when it is a loop; at an end of an open curve it stays and onBoundary is set
updateCurveLocationTofaceNumber(curveLocation, faceNumber, eCount, loop) ==
    LET e == curveLocation[1]
    IN  IF faceNumber = 1
        THEN IF e > 0 THEN << << e - 1, ONE >>, 0 >>
             ELSE IF loop THEN << << eCount - 1, ONE >>, 0 >>
             ELSE << << e, 0 >>, 1 >>
        ELSE IF e < eCount - 1 THEN << << e + 1, 0 >>, 0 >>
             ELSE IF loop THEN << << 0, 0 >>, 0 >>
             ELSE << << e, ONE >>, 2 >>

\* line 782: surfacePosition = self.findNearestParameterPosition(targetx), the
\* tuple (position, distance)
hintedSurfacePosition(nearest) == [kind |-> "tuple", position |-> nearest]

\* One pass of the for loop of findNearestPositionOnCurve.  nearest is the
\* position findNearestPosition returns at line 804 (in the model the one its
\* last pass leaves where the surface position was), mag_r the residual of
\* line 808 and dxi the step along the curve of lines 813-836; the last two
\* come from the geometry and are inputs.  findNearestPosition reads position.xi1 of its
\* start position (line 735), which a tuple does not have.
findNearestPositionOnCurveIteration(o, nearest, mag_r, dxi) ==
    LET inc      == incrementXiOnLine(o.curveLocation[2], dxi)
        moved    == << o.curveLocation[1], inc[1] >>
        upd      == IF inc[2] # 0
                    THEN updateCurveLocationTofaceNumber(moved, inc[2], o.eCount, o.loop)
                    ELSE << moved, 0 >>
        stop     == \/ (inc[2] # 0) /\ (upd[2] # 0) /\ o.lastOnBoundary
                    \/ Abs(dxi) < XI_TOL
                    \/ o.it + 1 = IterationLimit
    IN  IF o.surfacePosition.kind = "tuple"
        THEN [o EXCEPT !.pc = "raised", !.it = @ + 1, !.error = "AttributeError"]
        ELSE IF intersectionFound(mag_r)
        THEN [o EXCEPT !.pc = "returned", !.it = @ + 1, !.mag_r = mag_r,
                       !.surfacePosition = [kind |-> "position", position |-> nearest],
                       !.isIntersection = TRUE]
        ELSE [o EXCEPT !.pc = IF stop THEN "returned" ELSE "loop",
                       !.it = @ + 1, !.mag_r = mag_r,
                       !.surfacePosition = [kind |-> "position", position |-> nearest],
                       !.curveLocation = upd[1],
                       !.lastOnBoundary = (inc[2] # 0) /\ (upd[2] # 0)]

\* ------------------------------------------------------------------ inputs
\* xi values of the positions a caller may construct: element corners, the
\* element centre, and values one tolerance away from a corner (which is
\* inside the tolerance in proportion when there are two or more elements)
XiValues ==
    { 0, LOWER_P_LIMIT, ONE \div 2, ONE - LOWER_P_LIMIT, ONE }

\* a position the code regards as valid: what createPositionProportion can
\* return (on a surface with loop1 proportion 1 runs up to 2.0, so e1 runs up
\* to 2 * elementsCount1 - 1)
ValidPosition(p) ==
    /\ p.e1 \in 0..(max_e1 - 1) /\ p.e2 \in 0..(elementsCount2 - 1)
    /\ p.xi1 >= 0 /\ p.xi1 <= ONE /\ p.xi2 >= 0 /\ p.xi2 <= ONE

Proportion1Choices ==
    { -(ONE \div 2), -LOWER_P_LIMIT, 0, LOWER_P_LIMIT, ONE \div 4, ONE \div 2,
      ONE - LOWER_P_LIMIT, ONE, ONE + LOWER_P_LIMIT, 3 * (ONE \div 2), 2 * ONE,
      2 * ONE + LOWER_P_LIMIT, 3 * ONE }

Proportion2Choices ==
    { -LOWER_P_LIMIT, 0, LOWER_P_LIMIT, ONE \div 2, ONE - LOWER_P_LIMIT, ONE,
      ONE + LOWER_P_LIMIT, 2 * ONE }

\* xi increments, in DxiUnit: axis-aligned ones and multiples of (3, 4), whose
\* magnitudes are whole numbers of DxiUnit
DxiChoices ==
    { <<0, 0>>, <<5, 0>>, <<-5, 0>>, <<0, 5>>, <<0, -5>>,
      <<10, 0>>, <<-10, 0>>, <<0, 10>>, <<0, -10>>,
      <<20, 0>>, <<-20, 0>>, <<0, 20>>, <<0, -20>>, <<-30, 0>>, <<30, 0>>,
      <<3, 4>>, <<-4, -3>>, <<6, 8>>, <<-8, 6>>, <<12, 16>>, <<-12, -16>>,
      <<16, -12>>, <<-16, 12>>, <<24, 32>> }

\* the steps of the field handed to trackVector, in TvUnit, each of magnitude
\* MAX_MAG_DXI = 20 TvUnit, and <<0, 0>>
StepChoices ==
    { <<20, 0>>, <<-20, 0>>, <<0, 20>>, <<12, 16>>, <<-16, -12>>, <<0, 0>> }

FieldChoices ==
    { << a, a >> : a \in StepChoices } \cup { << a, << -a[1], -a[2] >> >> : a \in StepChoices }

\* track distances, in TvUnit: negative, zero, under one step, a few steps
TrackDistanceChoices == { -30, 0, 10, 50 }

\* values of the MAX_MAG_DXI parameter, in DxiUnit: 0.25, the default 0.5, 1.5
MaxMagDxiChoices == { 5, 10, 30 }

\* the components of the increments handed to increment_xi_on_square, in
\* TvUnit: none, and 0.02, 0.024 and 0.032 either way
SquareIncrementChoices == { -32, -24, -20, 0, 20, 24, 32 }

\* vectors handed to calculate_surface_delta_xi as d1, d2 and direction
VectorChoices ==
    { <<0, 0, 0>>, <<1, 0, 0>>, <<0, 1, 0>>, <<0, 0, 1>>, <<2, 0, 0>>, <<1, 1, 0>> }

\* the increments the iterative queries compute from the geometry: none, and
\* half an element either way along direction 1
CoarseDxiChoices == { <<0, 0>>, <<10 * DxiUnit, 0>>, <<-10 * DxiUnit, 0>> }

\* and one of a few tolerances, (2.0E-7, 2.7E-7)
FineDxiChoices == { <<12, 16>> }

\* how many of the increments of one call are fine ones
MaxFineIncrements == 1

\* the number of passes of a findIntersectionPoint call on stagnating
\* surfaces in which the jolt can help
MaxStagnations == 4

\* a stagnation event whose jolt did not help: the residual grows from 1 to 2
JoltIgnored == << 1, 2, <<0, 0>> >>

\* What the geometry gives at a stagnation event, as (r_dot_n_signed,
\* jolt_r_dot_n_signed, increment to the nearest position of line 508): a
\* residual that changes sign, one that falls, one that grows, and one that is
\* zero before and after the jolt (both surfaces in one plane)
JoltChoices ==
    { << 1, -1, << -MAG_JOLT_DXI, 0 >> >>, << 2, 1, << -MAG_JOLT_DXI, 0 >> >>,
      JoltIgnored, << 0, 0, << -MAG_JOLT_DXI, 0 >> >> }

\* the positions otherTrackSurface.findNearestPosition returns: where its last
\* pass left the position nearest to x, or the centre of the other surface
OtherPositionChoices(p) ==
    { advancePosition(p, 0, 0, QUERY_MAX_MAG_DXI).position,
      createPositionProportion(ONE \div 2, ONE \div 2) }

\* the residuals between the two surfaces: none, one unit under the tolerance,
\* and the tolerance
ResidualChoices == { 0, X_TOL - 1, X_TOL }

\* the element counts of the other surface of findIntersectionCurve: one
\* element, and as many as a surface has at most
OtherElementsChoices == { <<1, 1>>, <<MaxElements1, MaxElements2>> }

\* the ends of the cover of the other surface, in proportion 1 of the surface:
\* before its start or a quarter in, three quarters in, at its end or beyond
OtherLoChoices == { -(ONE \div 4), ONE \div 4 }

OtherHiChoices == { 3 * (ONE \div 4), ONE, ONE + ONE \div 4 }

\* values of the MAX_MAG_DXI parameter of findIntersectionCurve, in DxiUnit:
\* 0.25 and the default 0.5
CurveMaxMagDxiChoices == { 5, 10 }

\* values of the curveElementsCount parameter
CurveElementsCountChoices == { 2, 3 }

\* the steps along the curve findNearestPositionOnCurve takes: none, and
\* MAX_MAG_DXI either way
CurveDxiChoices == { 0, ONE \div 2, -(ONE \div 2) }

\* default of the curveSamples parameter of findNearestPositionOnCurve
curveSamplesDefault == 2 * 2

\* the lattice handed to the constructor: every node holds values found at no
\* other node and in no other list
NodeValue(list, n) == << 1000 * list + 10 * n + 1, 1000 * list + 10 * n + 2, 1000 * list + 10 * n + 3 >>

Lattice(list, n1, n2, loop) ==
    [n \in 1..((n1 + (IF loop THEN 0 ELSE 1)) * (n2 + 1)) |-> NodeValue(list, n)]

\* ------------------------------------------------------------------- Init
\* TrackSurface.__init__, and TrackSurfacePosition.__init__ for the valid
\* position the caller holds
Init ==
    /\ elementsCount1 \in 1..MaxElements1
    /\ elementsCount2 \in 1..MaxElements2
    /\ loop1 \in BOOLEAN
    /\ nx  = Lattice(1, elementsCount1, elementsCount2, loop1)
    /\ nd1 = Lattice(2, elementsCount1, elementsCount2, loop1)
    /\ nd2 = Lattice(3, elementsCount1, elementsCount2, loop1)
    /\ nd12 \in { << >>, Lattice(4, elementsCount1, elementsCount2, loop1) }
    /\ position \in { TrackSurfacePosition(e1, e2, xi1, xi2) :
                        e1 \in 0..(max_e1 - 1), e2 \in 0..(elementsCount2 - 1),
                        xi1 \in XiValues, xi2 \in XiValues }
    /\ xRange = computeRange(nx)
    /\ last = [op |-> "__init__"]
    /\ tv = [pc |-> "idle"]
    /\ fn = [pc |-> "idle"]
    /\ fp = [pc |-> "idle"]
    /\ fc = [pc |-> "idle"]
    /\ oc = [pc |-> "idle"]

\* ---------------------------------------------------------------- actions
\* Every function below is a pure function of the surface and its arguments,
\* so a behaviour makes one call on the freshly built surface and position
\* (and, after getProportion, the call that converts the proportions back).
Fresh == last.op = "__init__"

\* one call of createPositionProportion: it raises, or it returns a position
CallCreatePositionProportion(proportion1, proportion2, from) ==
    LET raised == ~assertProportions(proportion1, proportion2)
        out    == IF raised THEN NoPosition
                  ELSE createPositionProportion(proportion1, proportion2)
    IN  /\ last' = [op |-> "createPositionProportion", proportion1 |-> proportion1,
                    proportion2 |-> proportion2, from |-> from, raised |-> raised,
                    position |-> out]
        /\ position' = IF raised THEN position ELSE out
        /\ UNCHANGED <<surface, tv, queries>>

CreatePositionProportion ==
    /\ Fresh
    /\ \E proportion1 \in Proportion1Choices, proportion2 \in Proportion2Choices :
          CallCreatePositionProportion(proportion1, proportion2, NoPosition)

GetProportion ==
    /\ Fresh
    /\ last' = [op |-> "getProportion", start |-> position,
                proportion |-> getProportion(position)]
    /\ UNCHANGED <<surface, position, tv, queries>>

\* createPositionProportion(*proportion) on the result of getProportion, as
\* resampleHermiteCurvePointsSmooth does with the proportions it keeps
CreatePositionFromProportion ==
    /\ last.op = "getProportion"
    /\ CallCreatePositionProportion(last.proportion[1], last.proportion[2], last.start)

PositionOnBoundary ==
    /\ Fresh
    /\ last' = [op |-> "_positionOnBoundary", start |-> position,
                onBoundary |-> positionOnBoundary(position)]
    /\ UNCHANGED <<surface, position, tv, queries>>

AdvancePosition ==
    /\ Fresh
    /\ \E dxi \in DxiChoices, maxMag \in MaxMagDxiChoices :
          LET r == advancePosition(position, dxi[1] * DxiUnit, dxi[2] * DxiUnit, maxMag * DxiUnit)
          IN  /\ last' = [op |-> "_advancePosition", start |-> position,
                          dxi1 |-> dxi[1] * DxiUnit, dxi2 |-> dxi[2] * DxiUnit,
                          MAX_MAG_DXI |-> maxMag * DxiUnit, result |-> r]
    /\ UNCHANGED <<surface, position, tv, queries>>

EvaluateCoordinates ==
    /\ Fresh
    /\ OnQuarterGrid(position.xi1) /\ OnQuarterGrid(position.xi2)
    /\ last' = [op |-> "evaluateCoordinates", start |-> position,
                result |-> evaluateCoordinates(position)]
    /\ UNCHANGED <<surface, position, tv, queries>>

\* a track distance of one element, in TvUnit: 1.0
LongTrackDistance == ONE \div TvUnit

\* It is tracked from one tolerance inside the first element, on the
\* surfaces without cross derivatives.
LongTrackStart ==
    /\ position = TrackSurfacePosition(0, 0, LOWER_P_LIMIT, ONE \div 2)
    /\ nd12 = << >>

\* updatePositionTofaceNumber, called with the number of a face of its
\* element the position lies on
UpdatePositionTofaceNumber ==
    /\ Fresh
    /\ \E faceNumber \in 1..4 :
          /\ \/ (faceNumber = 1) /\ (position.xi1 = 0)
             \/ (faceNumber = 2) /\ (position.xi1 = ONE)
             \/ (faceNumber = 3) /\ (position.xi2 = 0)
             \/ (faceNumber = 4) /\ (position.xi2 = ONE)
          /\ last' = [op |-> "updatePositionTofaceNumber", start |-> position,
                      faceNumber |-> faceNumber,
                      result |-> updatePositionTofaceNumber(position, faceNumber)]
    /\ UNCHANGED <<surface, position, tv, queries>>

\* increment_xi_on_square takes no surface: it is called with the xi of a
\* position of the surface of one element without cross derivatives
IncrementXiOnSquare ==
    /\ Fresh
    /\ (elementsCount1 = 1) /\ (elementsCount2 = 1) /\ ~loop1 /\ (nd12 = << >>)
    /\ \E d1 \in SquareIncrementChoices, d2 \in SquareIncrementChoices :
          last' = [op |-> "increment_xi_on_square",
                   xi1 |-> position.xi1, xi2 |-> position.xi2,
                   dxi1 |-> d1 * TvUnit, dxi2 |-> d2 * TvUnit,
                   result |-> increment_xi_on_square(position.xi1, position.xi2,
                                                     d1 * TvUnit, d2 * TvUnit)]
    /\ UNCHANGED <<surface, position, tv, queries>>

\* trackVector up to the while loop
TrackVectorStart ==
    /\ Fresh
    /\ \E field \in FieldChoices,
          trackDistance \in TrackDistanceChoices
                            \cup (IF LongTrackStart THEN { LongTrackDistance } ELSE {}) :
          LET useField == IF trackDistance < 0
                          THEN << << -field[1][1], -field[1][2] >>, << -field[2][1], -field[2][2] >> >>
                          ELSE field
              useTrackDistance == Abs(trackDistance) * TvUnit
          IN  /\ tv' = [pc |-> IF 0 < useTrackDistance THEN "loop" ELSE "done",
                        position |-> position, distance |-> 0,
                        useTrackDistance |-> useTrackDistance, field |-> useField]
              /\ last' = [op |-> "trackVector", start |-> position,
                          trackDistance |-> trackDistance * TvUnit]
    /\ UNCHANGED <<surface, position, queries>>

\* one pass of the while loop of trackVector
TrackVectorStep ==
    /\ tv.pc = "loop"
    /\ tv' = trackVectorIteration(tv)
    /\ position' = startPositionAfter(position, tv'.position)
    /\ UNCHANGED <<surface, last, queries>>

\* The functions that take no position are called where the caller holds the
\* first position of the surface.
FirstPosition == position = TrackSurfacePosition(0, 0, 0, 0)

\* The iterative queries are started one tolerance short of the end of the
\* last element in direction 1 and in the middle of the first element in
\* direction 2 (or, without a start position, from where the code starts).
\* Their geometry is an input, so they are explored on the surfaces without
\* cross derivatives.
QueryStartPosition ==
    /\ position = TrackSurfacePosition(max_e1 - 1, 0, ONE - LOWER_P_LIMIT, ONE \div 2)
    /\ nd12 = << >>

\* The two surfaces of a findIntersectionPoint call are either ones where
\* the computed increment changes the position or, being zero, has a jolt that
\* does not help, or stagnating ones: the computed increment is zero on every
\* pass (a local minimum of the residual).  On the stagnating ones the call is
\* also started on the end of the last element in direction 1, in the middle
\* and at the start of the first element in direction 2: on an edge and at a
\* corner of a surface without loop1.
JoltStartPosition ==
    /\ position \in { TrackSurfacePosition(max_e1 - 1, 0, ONE, ONE \div 2),
                      TrackSurfacePosition(max_e1 - 1, 0, ONE, 0) }
    /\ nd12 = << >>

CreateMirrorX ==
    /\ Fresh
    /\ FirstPosition
    /\ last' = [op |-> "createMirrorX", result |-> createMirrorX]
    /\ UNCHANGED <<surface, position, tv, queries>>

CalculateSurfaceDeltaXi ==
    /\ Fresh
    /\ FirstPosition /\ (nd12 = << >>)
    /\ \E d1 \in VectorChoices, d2 \in VectorChoices, direction \in VectorChoices :
          last' = [op |-> "calculate_surface_delta_xi", d1 |-> d1, d2 |-> d2,
                   direction |-> direction,
                   result |-> calculate_surface_delta_xi(d1, d2, direction)]
    /\ UNCHANGED <<surface, position, tv, queries>>

\* findNearestPosition up to the for loop
FindNearestPositionStart ==
    /\ Fresh
    /\ QueryStartPosition
    /\ \E given \in BOOLEAN :
          LET startPosition == IF given THEN position
                               ELSE createPositionProportion(ONE \div 2, ONE \div 2)
          IN  /\ fn' = [pc |-> "loop", it |-> 0, startGiven |-> given,
                        start |-> startPosition, position |-> startPosition,
                        from |-> startPosition, dxi |-> <<0, 0>>, adxi |-> <<0, 0>>,
                        applied |-> <<0, 0>>, converged |-> FALSE, fine |-> 0]
              /\ last' = [op |-> "findNearestPosition", start |-> position]
    /\ UNCHANGED <<surface, position, tv, fp, fc, oc>>

\* one pass of the for loop of findNearestPosition
FindNearestPositionStep ==
    /\ fn.pc = "loop"
    /\ \E dxi \in CoarseDxiChoices
                  \cup (IF fn.fine < MaxFineIncrements THEN FineDxiChoices ELSE {}) :
          fn' = [findNearestPositionIteration(fn, dxi[1], dxi[2]) EXCEPT
                    !.fine = IF dxi \in FineDxiChoices THEN @ + 1 ELSE @]
    /\ UNCHANGED <<surface, position, last, tv, fp, fc, oc>>

\* findIntersectionPoint up to the for loop; the other surface is the surface
\* itself and the other start position its centre
FindIntersectionPointStart ==
    /\ Fresh
    /\ \E stagnating \in BOOLEAN :
          /\ IF stagnating THEN QueryStartPosition \/ JoltStartPosition
                           ELSE QueryStartPosition
          /\ fp' = [pc |-> "loop", it |-> 0, position |-> position,
                    otherPosition |-> createPositionProportion(ONE \div 2, ONE \div 2),
                    from |-> position, mag_r |-> X_TOL, adxi |-> <<0, 0>>,
                    applied |-> <<0, 0>>, insufficient |-> FALSE, result |-> NotFound,
                    stagnating |-> stagnating,
                    jolt_index |-> 0, stagnations |-> 0, jolt |-> NoJolt]
    /\ last' = [op |-> "findIntersectionPoint", start |-> position]
    /\ UNCHANGED <<surface, position, tv, fn, fc, oc>>

\* one pass of the for loop of findIntersectionPoint
FindIntersectionPointStep ==
    /\ fp.pc = "loop"
    /\ \E otherPosition \in OtherPositionChoices(fp.position), mag_r \in ResidualChoices,
          dxi \in IF fp.stagnating THEN { <<0, 0>> } ELSE CoarseDxiChoices,
          jolt \in IF fp.stagnating /\ (fp.it < MaxStagnations) THEN JoltChoices
                   ELSE { JoltIgnored } :
          fp' = findIntersectionPointIteration(fp, otherPosition, mag_r, dxi[1], dxi[2], jolt)
    /\ UNCHANGED <<surface, position, last, tv, fn, fc, oc>>

\* findIntersectionCurve is called where the caller holds the centre of the
\* first element, which it may pass as the start position
CurveStartPosition ==
    /\ position = TrackSurfacePosition(0, 0, ONE \div 2, ONE \div 2)
    /\ nd12 = << >>

\* and, with that position as the start position, where it holds the centre
\* of the last element
LastElementStartPosition ==
    /\ position = TrackSurfacePosition(elementsCount1 - 1, elementsCount2 - 1,
                                       ONE \div 2, ONE \div 2)
    /\ nd12 = << >>

\* findIntersectionCurve up to the while loop.  Without a start position the
\* trace starts at the node (n1, n2) nearest to the other surface, which
\* lines 588-603 search for.
FindIntersectionCurveStart ==
    /\ Fresh
    /\ CurveStartPosition \/ LastElementStartPosition
    /\ \E given \in IF CurveStartPosition THEN BOOLEAN ELSE { TRUE },
          n1 \in 0..(elementsCount1 - (IF loop1 THEN 1 ELSE 0)), n2 \in 0..1,
          maxMag \in CurveMaxMagDxiChoices, t \in { 1, -1 },
          lo \in IF loop1 THEN { 0 } ELSE OtherLoChoices,
          hi \in IF loop1 THEN { ONE } ELSE OtherHiChoices,
          other \in OtherElementsChoices :
          LET startPosition ==
                  IF given THEN position
                  ELSE createPositionProportion((n1 * ONE) \div elementsCount1,
                                                (n2 * ONE) \div elementsCount2)
              otherStartPosition ==
                  IF given THEN findNearestParameterPosition(position)
                  ELSE otherNodePosition(other[1], other[2], 0, 0)
          IN  /\ fc' = [pc |-> "trace", exit |-> "none", error |-> "none",
                        startGiven |-> given, MAX_MAG_DXI |-> maxMag * DxiUnit,
                        curveElementsCount |-> 0, otherLo |-> lo, otherHi |-> hi, t |-> t,
                        otherElementsCount1 |-> other[1], otherElementsCount2 |-> other[2],
                        otherStartPosition |-> otherStartPosition,
                        startPosition |-> startPosition, nextPosition |-> startPosition,
                        position |-> startPosition,
                        px |-> << >>, pd1 |-> << >>, boundaryCount |-> 0, loop |-> FALSE,
                        pointCount |-> 0, crossBoundary |-> 0, ends |-> << >>,
                        nx |-> << >>, cx |-> << >>, cd1 |-> << >>, cProportions |-> << >>,
                        popped |-> "none", result |-> NoCurve]
              /\ last' = [op |-> "findIntersectionCurve", start |-> position]
    /\ UNCHANGED <<surface, position, tv, fn, fp, oc>>

\* one pass of the while loop of findIntersectionCurve
FindIntersectionCurveStep ==
    /\ fc.pc = "trace"
    /\ fc.pointCount < MaxPoints
    /\ \E found \in BOOLEAN : fc' = findIntersectionCurveIteration(fc, found)
    /\ UNCHANGED <<surface, position, last, tv, fn, fp, oc>>

\* the resampling of the chain
FindIntersectionCurveSample ==
    /\ fc.pc = "resample"
    /\ \E curveElementsCount \in CurveElementsCountChoices, sampleRaises \in BOOLEAN :
          fc' = findIntersectionCurveSample(fc, curveElementsCount, sampleRaises)
    /\ UNCHANGED <<surface, position, last, tv, fn, fp, oc>>

\* one pass of the for loop over the resampled points
FindIntersectionCurveReproject ==
    /\ fc.pc = "reproject"
    /\ \E found \in BOOLEAN : fc' = findIntersectionCurveReproject(fc, found)
    /\ UNCHANGED <<surface, position, last, tv, fn, fp, oc>>

\* findNearestPositionOnCurve up to the for loop, on a curve of two points,
\* open or closed.  With a start curve location (the middle of the first
\* element) the surface position is what findNearestParameterPosition
\* returns; without one, the curve is sampled and the sample s nearest to a
\* node gives the curve location and the node the surface position.
FindNearestPositionOnCurveStart ==
    /\ Fresh
    /\ CurveStartPosition
    /\ elementsCount2 = 1
    /\ \E hint \in BOOLEAN, loop \in BOOLEAN :
          LET nCount == 2
              eCount == IF loop THEN nCount ELSE nCount - 1
              sCount == eCount * curveSamplesDefault
              nearest == createPositionProportion(0, 0)
          IN  \E s \in IF hint THEN { 0 } ELSE { 0, 2, IF loop THEN sCount - 1 ELSE sCount } :
                LET tmpCurveLocation ==
                        IF (~loop) /\ (s = sCount)
                        THEN << s \div curveSamplesDefault - 1, ONE >>
                        ELSE << s \div curveSamplesDefault,
                                ((s % curveSamplesDefault) * ONE) \div curveSamplesDefault >>
                IN  /\ oc' = [pc |-> "loop", it |-> 0, error |-> "none", hint |-> hint,
                              loop |-> loop, eCount |-> eCount,
                              curveLocation |-> IF hint THEN << 0, ONE \div 2 >>
                                                ELSE tmpCurveLocation,
                              surfacePosition |-> IF hint THEN hintedSurfacePosition(nearest)
                                                  ELSE [kind |-> "position", position |-> nearest],
                              mag_r |-> X_TOL, lastOnBoundary |-> FALSE,
                              isIntersection |-> FALSE]
                    /\ last' = [op |-> "findNearestPositionOnCurve", start |-> position]
    /\ UNCHANGED <<surface, position, tv, fn, fp, fc>>

\* one pass of the for loop of findNearestPositionOnCurve
FindNearestPositionOnCurveStep ==
    /\ oc.pc = "loop"
    /\ \E mag_r \in ResidualChoices, dxi \in CurveDxiChoices :
          LET nearest == advancePosition(oc.surfacePosition.position, 0, 0,
                                         QUERY_MAX_MAG_DXI).position
          IN  oc' = findNearestPositionOnCurveIteration(oc, nearest, mag_r, dxi)
    /\ UNCHANGED <<surface, position, last, tv, fn, fp, fc>>

\* the names of the queries
QueryNames ==
    { "trackVector", "findNearestPosition", "findIntersectionPoint",
      "findIntersectionCurve", "findNearestPositionOnCurve" }

\* a query has returned or raised
QueryFinished ==
    \/ tv.pc \in { "done", "raised" }
    \/ fn.pc = "returned"
    \/ fp.pc \in { "found", "notfound", "raised" }
    \/ fc.pc \in { "returned", "raised" }
    \/ oc.pc \in { "returned", "raised" }

\* the caller goes on to its next call, on the same surface and with the
\* position it holds
Return ==
    /\ last.op \in QueryNames
    /\ QueryFinished
    /\ last' = [op |-> "__init__"]
    /\ tv' = [pc |-> "idle"]
    /\ fn' = [pc |-> "idle"]
    /\ fp' = [pc |-> "idle"]
    /\ fc' = [pc |-> "idle"]
    /\ oc' = [pc |-> "idle"]
    /\ UNCHANGED <<surface, position>>

Next ==
    \/ CreatePositionProportion
    \/ GetProportion
    \/ CreatePositionFromProportion
    \/ PositionOnBoundary
    \/ AdvancePosition
    \/ EvaluateCoordinates
    \/ UpdatePositionTofaceNumber
    \/ IncrementXiOnSquare
    \/ TrackVectorStart
    \/ TrackVectorStep
    \/ CreateMirrorX
    \/ CalculateSurfaceDeltaXi
    \/ FindNearestPositionStart
    \/ FindNearestPositionStep
    \/ FindIntersectionPointStart
    \/ FindIntersectionPointStep
    \/ FindIntersectionCurveStart
    \/ FindIntersectionCurveStep
    \/ FindIntersectionCurveSample
    \/ FindIntersectionCurveReproject
    \/ FindNearestPositionOnCurveStart
    \/ FindNearestPositionOnCurveStep
    \/ Return

Spec == Init /\ [][Next]_vars

\* the code is sequential: a loop that has another pass to make makes it
FairSpec == Spec /\ WF_vars(TrackVectorStep)

\* =================================================================== claims
\* what "clamped" means for a call of _advancePosition recorded in last
Clamped1(r) == (~loop1) /\ ((r.cand1 < 0) \/ (r.cand1 > ONE))

Clamped2(r) == (r.cand2 < 0) \/ (r.cand2 > ONE)

AdvanceReturned == (last.op = "_advancePosition") /\ (~last.result.raised)

\* C1: whenever _advancePosition clamps a proportion, the increments it
\* returns are the xi displacement really applied, (new proportion - start
\* proportion) * element count, in a clamped direction, and the limited
\* requested increment in a direction that was not clamped.
C1_ReturnedIncrementIsApplied ==
    (AdvanceReturned /\ (last.result.onBoundary # 0)) =>
        LET r  == last.result
            sp == getProportion(last.start)
        IN  /\ r.dxi1 = IF Clamped1(r) THEN (r.proportion1 - sp[1]) * elementsCount1
                        ELSE r.sdxi1
            /\ r.dxi2 = IF Clamped2(r) THEN (r.proportion2 - sp[2]) * elementsCount2
                        ELSE r.sdxi2

CreateReturned == (last.op = "createPositionProportion") /\ (~last.raised)

\* C2 as stated: createPositionProportion returns e1 in [0, elementsCount1),
\* e2 in [0, elementsCount2) and xi1, xi2 in [0, 1], with or without loop1.
C2_ElementIndexBelowElementsCount ==
    CreateReturned =>
        /\ last.position.e1 \in 0..(elementsCount1 - 1)
        /\ last.position.e2 \in 0..(elementsCount2 - 1)
        /\ last.position.xi1 >= 0 /\ last.position.xi1 <= ONE
        /\ last.position.xi2 >= 0 /\ last.position.xi2 <= ONE

\* C2 amended: createPositionProportion returns e1 in [0, elementsCount1)
\* without loop1 and in [0, 2 * elementsCount1) with loop1, e2 in
\* [0, elementsCount2) and xi1, xi2 in [0, 1]; the top proportion (1.0, or
\* 2.0 with loop1) gives the last of these elements with xi = 1.0.
C2_PositionInRange ==
    CreateReturned =>
        /\ last.position.e1 \in 0..((IF loop1 THEN 2 * elementsCount1 ELSE elementsCount1) - 1)
        /\ last.position.e2 \in 0..(elementsCount2 - 1)
        /\ last.position.xi1 >= 0 /\ last.position.xi1 <= ONE
        /\ last.position.xi2 >= 0 /\ last.position.xi2 <= ONE
        /\ (last.proportion1 = (IF loop1 THEN 2 * ONE ELSE ONE)) =>
              /\ last.position.e1 = (IF loop1 THEN 2 * elementsCount1 ELSE elementsCount1) - 1
              /\ last.position.xi1 = ONE
        /\ (last.proportion2 = ONE) =>
              /\ last.position.e2 = elementsCount2 - 1
              /\ last.position.xi2 = ONE

C2_Witness ==
    CreateReturned /\ loop1 /\ (last.proportion1 = 2 * ONE) /\ (last.proportion2 = ONE)
    /\ (last.position.e1 = 2 * elementsCount1 - 1) /\ (elementsCount1 > 1)

RoundTrip == (last.op = "createPositionProportion") /\ (last.from # NoPosition)

\* C3 as stated: createPositionProportion(getProportion(p)) gives back the
\* element indices and xi values of every valid position p.
C3_RoundTripIsIdentity ==
    RoundTrip => (~last.raised) /\ (last.position = last.from)

\* C3 amended: the round trip gives back p in each direction where xi < 1.0
\* or the element is the last one createPositionProportion can return; where
\* xi = 1.0 on an earlier element it gives the next element with xi = 0.0.
C3_RoundTripIsCanonical ==
    RoundTrip =>
        /\ ~last.raised
        /\ IF (last.from.xi1 < ONE) \/ (last.from.e1 = max_e1 - 1)
           THEN (last.position.e1 = last.from.e1) /\ (last.position.xi1 = last.from.xi1)
           ELSE (last.position.e1 = last.from.e1 + 1) /\ (last.position.xi1 = 0)
        /\ IF (last.from.xi2 < ONE) \/ (last.from.e2 = elementsCount2 - 1)
           THEN (last.position.e2 = last.from.e2) /\ (last.position.xi2 = last.from.xi2)
           ELSE (last.position.e2 = last.from.e2 + 1) /\ (last.position.xi2 = 0)

C3_Witness ==
    RoundTrip /\ (last.from.xi1 = ONE) /\ (last.from.e1 = 0) /\ (elementsCount1 = 2)
    /\ (last.position.e1 = 1) /\ (last.from.xi2 = LOWER_P_LIMIT)

\* C4: createPositionProportion raises, and returns no position, exactly when
\* proportion1 < 0, proportion1 > 1.0 (2.0 with loop1), proportion2 < 0 or
\* proportion2 > 1.0.
C4_AssertsExactlyOutOfRange ==
    (last.op = "createPositionProportion") =>
        /\ last.raised <=>
              \/ last.proportion1 < 0
              \/ last.proportion1 > (IF loop1 THEN 2 * ONE ELSE ONE)
              \/ last.proportion2 < 0
              \/ last.proportion2 > ONE
        /\ last.raised <=> (last.position = NoPosition)

C4_Witness ==
    (last.op = "createPositionProportion") /\ last.raised /\ (~loop1)
    /\ (last.proportion1 = ONE + LOWER_P_LIMIT) /\ (last.proportion2 = ONE)

\* within the 1.0E-7 tolerance of proportion 0 or 1
NearEnd(pr) == (Abs(pr) < LOWER_P_LIMIT) \/ (Abs(pr - ONE) < LOWER_P_LIMIT)

\* C5: on a surface without loop1, _positionOnBoundary returns 2 for every
\* position within the tolerance of a boundary in both directions.
C5_CornerIsEdge2 ==
    ((last.op = "_positionOnBoundary") /\ (~loop1)
     /\ NearEnd(getProportion(last.start)[1]) /\ NearEnd(getProportion(last.start)[2]))
        => (last.onBoundary = 2)

\* C6: _positionOnBoundary returns a non-zero code exactly when the proportion
\* is within 1.0E-7 of 0 or 1 in direction 2, or in direction 1 without loop1;
\* with loop1 it never returns 1.
C6_BoundaryCodeExact ==
    (last.op = "_positionOnBoundary") =>
        /\ (last.onBoundary # 0) <=>
              \/ NearEnd(getProportion(last.start)[2])
              \/ (~loop1) /\ NearEnd(getProportion(last.start)[1])
        /\ last.onBoundary \in {0, 1, 2}
        /\ loop1 => (last.onBoundary # 1)

C6_Witness ==
    (last.op = "_positionOnBoundary") /\ loop1 /\ (last.onBoundary = 0)
    /\ (last.start.e1 = 0) /\ (last.start.xi1 = 0) /\ (last.start.xi2 = ONE \div 2)

\* C7: with MAX_MAG_DXI <= 0.5, _advancePosition hands createPositionProportion
\* proportions inside its ranges; the boundary code is 0 exactly when nothing
\* was clamped, 2 whenever direction 2 was clamped, and 1 only when direction 1
\* alone was clamped without loop1; with loop1 direction 1 is wrapped by whole
\* periods and boundary 1 is never reported.
C7_AdvanceStaysInRange ==
    ((last.op = "_advancePosition") /\ (2 * last.MAX_MAG_DXI <= ONE)) =>
        LET r == last.result
        IN  /\ ~r.raised
            /\ r.proportion1 >= 0 /\ r.proportion1 <= (IF loop1 THEN 2 * ONE ELSE ONE)
            /\ r.proportion2 >= 0 /\ r.proportion2 <= ONE
            /\ (r.onBoundary = 0) <=> ~(Clamped1(r) \/ Clamped2(r))
            /\ Clamped2(r) => (r.onBoundary = 2)
            /\ (r.onBoundary = 1) <=> (Clamped1(r) /\ ~Clamped2(r))
            /\ Clamped1(r) => (r.proportion1 = IF r.cand1 < 0 THEN 0 ELSE ONE)
            /\ Clamped2(r) => (r.proportion2 = IF r.cand2 < 0 THEN 0 ELSE ONE)
            /\ ~Clamped2(r) => (r.proportion2 = r.cand2)
            /\ loop1 => /\ r.onBoundary # 1
                        /\ (r.proportion1 - r.cand1) % ONE = 0
            /\ ((~loop1) /\ ~Clamped1(r)) => (r.proportion1 = r.cand1)

C7_Witness ==
    (last.op = "_advancePosition") /\ (2 * last.MAX_MAG_DXI <= ONE) /\ loop1
    /\ (last.result.cand1 < 0) /\ (last.result.proportion1 = last.result.cand1 + ONE)
    /\ (last.result.onBoundary = 2)

\* C8: the increment is applied unchanged when its magnitude is at most
\* MAX_MAG_DXI; otherwise both components are multiplied by the same factor
\* MAX_MAG_DXI / magnitude, so the increment applied keeps its direction and
\* has magnitude at most MAX_MAG_DXI.  (Components in DxiUnit, the limited
\* ones in 1/1000 DxiUnit.)
C8_IncrementLimited ==
    (last.op = "_advancePosition") =>
        LET d1  == last.dxi1 \div DxiUnit
            d2  == last.dxi2 \div DxiUnit
            mx  == last.MAX_MAG_DXI \div DxiUnit
            s1  == last.result.sdxi1 \div (DxiUnit \div 1000)
            s2  == last.result.sdxi2 \div (DxiUnit \div 1000)
            mag == ISqrtFrom(d1 * d1 + d2 * d2, 0)
        IN  /\ mag * mag = d1 * d1 + d2 * d2
            /\ (mag <= mx) => (s1 = 1000 * d1) /\ (s2 = 1000 * d2)
            /\ (mag > mx) => (s1 * mag = 1000 * d1 * mx) /\ (s2 * mag = 1000 * d2 * mx)
            /\ s1 * d2 = s2 * d1
            /\ (s1 * d1 >= 0) /\ (s2 * d2 >= 0)
            /\ s1 * s1 + s2 * s2 <= (1000 * mx) * (1000 * mx)

C8_Witness ==
    (last.op = "_advancePosition") /\ (last.dxi1 = -12 * DxiUnit) /\ (last.dxi2 = -16 * DxiUnit)
    /\ (last.MAX_MAG_DXI = 10 * DxiUnit)
    /\ (last.result.sdxi1 = -6 * DxiUnit) /\ (last.result.sdxi2 = -8 * DxiUnit)

\* the lattice node at the corner (xi1, xi2 in {0, 1}) of a position's element
CornerNode(p) ==
    LET col == (p.e1 % elementsCount1) + (IF p.xi1 = ONE THEN 1 ELSE 0)
        row == p.e2 + (IF p.xi2 = ONE THEN 1 ELSE 0)
    IN  IF loop1 THEN row * elementsCount1 + (col % elementsCount1)
        ELSE row * (elementsCount1 + 1) + col

AtCorner(p) == (p.xi1 \in {0, ONE}) /\ (p.xi2 \in {0, ONE})

\* C9: at a corner of an element evaluateCoordinates returns exactly the
\* coordinates and the two derivatives stored at that corner's lattice node;
\* the four node indices it reads are always inside the node list; with loop1
\* the xi1 = 1 side of the last element reads the first node of the row, and
\* e1 and e1 + elementsCount1 read the same nodes.
C9_CornerValuesAreNodeValues ==
    (last.op = "evaluateCoordinates") =>
        LET r == last.result
            p == last.start
        IN  /\ ~r.raised
            /\ \A ln \in 1..4 : (r.nid[ln] >= 0) /\ (r.nid[ln] < Len(nx))
            /\ AtCorner(p) =>
                  /\ r.coordinates = [c \in 1..3 |-> EvalScale * nx[CornerNode(p) + 1][c]]
                  /\ r.derivative1 = [c \in 1..3 |-> EvalScale * nd1[CornerNode(p) + 1][c]]
                  /\ r.derivative2 = [c \in 1..3 |-> EvalScale * nd2[CornerNode(p) + 1][c]]
            /\ (loop1 /\ (p.e1 % elementsCount1 = elementsCount1 - 1)) =>
                  /\ r.nid[2] = p.e2 * elementsCount1
                  /\ r.nid[4] = (p.e2 + 1) * elementsCount1
            /\ (loop1 /\ (p.e1 >= elementsCount1)) =>
                  (r.nid = nodeIds([p EXCEPT !.e1 = @ - elementsCount1]))

C9_Witness ==
    (last.op = "evaluateCoordinates") /\ loop1 /\ (elementsCount1 = 2) /\ (nd12 # << >>)
    /\ (last.start.e1 = 3) /\ (last.start.xi1 = ONE) /\ (last.start.xi2 = ONE)
    /\ (last.result.nid[2] = last.start.e2 * elementsCount1)
    /\ (last.result.coordinates[1] = EvalScale * nx[CornerNode(last.start) + 1][1])

\* C10: every query terminates; in particular the while loop of trackVector
\* cannot run forever.
C10_TrackVectorTerminates == (tv.pc = "loop") ~> (tv.pc \in {"done", "raised"})

\* C13: findNearestPosition makes at most 100 passes, stops at the first pass
\* whose actually applied increment has magnitude below 1.0E-7, and returns a
\* position that _advancePosition produced; without a start position it starts
\* from the proportions (0.5, 0.5).
C13_StopsOnAppliedIncrement ==
    (fn.pc \in { "loop", "returned" }) =>
        /\ fn.it <= IterationLimit
        /\ (~fn.startGiven) => (fn.start = createPositionProportion(ONE \div 2, ONE \div 2))
        /\ (fn.it > 0) =>
              /\ fn.converged <=> magnitudeBelow(fn.applied, XI_TOL)
              /\ fn.position # NoPosition
              /\ (fn.pc = "returned") <=> (fn.converged \/ (fn.it = IterationLimit))

\* C14: trackVector with a non-zero distance returns a position, without an
\* arithmetic error, where calculate_surface_delta_xi yields (0, 0).
C14_ZeroDeltaXiReturnsPosition ==
    ((last.op = "trackVector") /\ (last.trackDistance # 0)
     /\ (stepAt(tv.field, tv.position) = <<0, 0>>)) => (tv.pc # "raised")

\* C17: createMirrorX returns, with or without loop1, a surface with the same
\* element counts and loop flag and (elementsCount1 + (0 if loop1 else 1)) x
\* (elementsCount2 + 1) nodes; mirrored node (n2, n1) is read from row n2 of
\* the original, at an index inside its node list.
C17_MirrorReadsOwnRow ==
    (last.op = "createMirrorX") =>
        LET r == last.result
            nodesCount1 == elementsCount1 + (IF loop1 THEN 0 ELSE 1)
            count == nodesCount1 * (elementsCount2 + 1)
        IN  /\ ~r.raised
            /\ Len(r.nx) = count /\ Len(r.nd1) = count /\ Len(r.nd2) = count
            /\ (r.elementsCount1 = elementsCount1) /\ (r.elementsCount2 = elementsCount2)
            /\ r.loop1 = loop1
            /\ \A k \in 1..count :
                  /\ (r.oi[k] >= 0) /\ (r.oi[k] < Len(nx))
                  /\ r.oi[k] \div nodesCount1 = (k - 1) \div nodesCount1

C12_NotFoundOnAppliedIncrement ==
    (fp.pc \in { "loop", "found", "notfound" }) =>
        /\ fp.it <= IterationLimit
        /\ (fp.pc = "found") => (fp.result # NotFound)
        /\ (fp.pc = "notfound") =>
              /\ fp.result = NotFound
              /\ (fp.it = IterationLimit) \/ magnitudeBelow(fp.applied, XI_TOL)
        /\ ((fp.pc = "loop") /\ (fp.it > 0)) => ~magnitudeBelow(fp.applied, XI_TOL)

\* C20: when findIntersectionPoint reports an intersection, the point returned
\* is the evaluation of the surface at the position returned, the residual is
\* below 1.0E-6 times the largest extent of the surface, the boundary code
\* returned is _positionOnBoundary of the position returned, and the two
\* positions returned are valid.
C20_FoundTupleConsistent ==
    (fp.pc = "found") =>
        LET r == fp.result
        IN  /\ r.x.at = r.position
            /\ (OnQuarterGrid(r.position.xi1) /\ OnQuarterGrid(r.position.xi2)) =>
                  (r.x.coordinates = evaluateCoordinates(r.position).coordinates)
            /\ \E c \in 1..3 : (\A k \in 1..3 : xRange[k] <= xRange[c]) /\ (fp.mag_r < xRange[c])
            /\ r.onBoundary = positionOnBoundary(r.position)
            /\ ValidPosition(r.position) /\ ValidPosition(r.otherPosition)

\* an intersection found on the second pass, after a step clamped at the end
\* of direction 1, with a residual one unit under the tolerance
C20_Witness ==
    /\ fp.pc = "found" /\ fp.it = 2 /\ ~loop1
    /\ fp.result.position # position
    /\ fp.result.onBoundary = 1
    /\ fp.result.x.coordinates # << >>
    /\ fp.mag_r = X_TOL - 1 /\ fp.mag_r > 0

\* C11: findIntersectionCurve returns (None, None, None, False) and does not
\* raise whenever a call of findIntersectionPoint it makes reports no
\* intersection: at the seed, at a later pass of the trace, or for a
\* resampled point.
C11_NotFoundIsReturned ==
    /\ (fc.pc = "raised") => (fc.error \notin { "AssertionError", "AttributeError" })
    /\ ((fc.pc = "returned") /\ (fc.exit = "notfound")) => (fc.result = NoCurve)

\* C18: the trace loop of findIntersectionCurve is left when a boundary has
\* been counted twice, with loop False, or when the loop test succeeded, with
\* loop True and no boundary counted; and when it is left at the second
\* boundary the chain of points runs, in order along the curve, from the point
\* at which the second boundary was counted to the point at which the first
\* was.
C18_ChainRunsFromEndToEnd ==
    (fc.pc \in { "resample", "reproject" }) \/ ((fc.pc = "returned") /\ (fc.exit # "notfound")) =>
        /\ fc.exit \in { "boundary", "loop" }
        /\ (fc.exit = "boundary") => ((~fc.loop) /\ (fc.boundaryCount = 2))
        /\ (fc.exit = "loop") => (fc.loop /\ (fc.boundaryCount = 0))
        /\ (fc.exit = "boundary") =>
              /\ Len(fc.ends) = 2
              /\ fc.px[1] = fc.ends[2]
              /\ fc.px[Len(fc.px)] = fc.ends[1]
              /\ \A i \in 1..(Len(fc.px) - 1) : (fc.px[i + 1] - fc.px[i]) * fc.t > 0

\* C19: when findIntersectionCurve returns a curve, the lists of points,
\* tangents and proportions have the same length: curveElementsCount for a
\* closed curve, curveElementsCount + 1 for an open one.
C19_ResampledLengths ==
    ((fc.pc = "returned") /\ (fc.exit # "notfound")) =>
        /\ ~fc.result.none
        /\ Len(fc.result.cx) = Len(fc.result.cd1)
        /\ Len(fc.result.cx) = Len(fc.result.cProportions)
        /\ Len(fc.result.cx) = fc.curveElementsCount + (IF fc.result.loop THEN 0 ELSE 1)

\* a closed curve traced round a surface with loop1 and returned with
\* curveElementsCount = 3 points
C19_Witness ==
    /\ fc.pc = "returned" /\ fc.exit = "loop" /\ fc.result.loop
    /\ fc.curveElementsCount = 3 /\ Len(fc.result.cx) = 3
    /\ Len(fc.px) > 2

\* C15: findNearestPositionOnCurve returns a triple with and without a start
\* curve location: the surface position it iterates from is a
\* TrackSurfacePosition, the curve location has its element index in
\* [0, eCount) and its xi in [0, 1], and isIntersection is True only with a
\* residual below X_TOL.
C15_HintedCallReturnsTriple ==
    (oc.pc \in { "loop", "returned", "raised" }) =>
        /\ oc.pc # "raised"
        /\ oc.surfacePosition.kind = "position"
        /\ ValidPosition(oc.surfacePosition.position)
        /\ (oc.curveLocation[1] >= 0) /\ (oc.curveLocation[1] < oc.eCount)
        /\ (oc.curveLocation[2] >= 0) /\ (oc.curveLocation[2] <= ONE)
        /\ oc.isIntersection => ((oc.pc = "returned") /\ (oc.mag_r < X_TOL))

\* the Gram determinant (d1.d1)(d2.d2) - (d1.d2)^2 of the call in last
gramDeterminant ==
    dotproduct(last.d1, last.d1) * dotproduct(last.d2, last.d2)
    - dotproduct(last.d1, last.d2) * dotproduct(last.d1, last.d2)

\* C21: with a positive Gram determinant calculate_surface_delta_xi returns
\* (dxi1, dxi2) satisfying the normal equations: the residual
\* dxi1*d1 + dxi2*d2 - direction is orthogonal to d1 and to d2, up to the
\* rounding of the two quotients to 1/DeltaXiScale.
C21_SolvesNormalEquations ==
    ((last.op = "calculate_surface_delta_xi") /\ (gramDeterminant > 0)) =>
        LET a11 == dotproduct(last.d1, last.d1)
            a12 == dotproduct(last.d1, last.d2)
            a22 == dotproduct(last.d2, last.d2)
            b1  == dotproduct(last.d1, last.direction)
            b2  == dotproduct(last.d2, last.direction)
            r   == last.result
        IN  /\ Abs(a11 * r[1] + a12 * r[2] - DeltaXiScale * b1) < a11 + Abs(a12)
            /\ Abs(a12 * r[1] + a22 * r[2] - DeltaXiScale * b2) < Abs(a12) + a22

\* tangents that are not orthogonal, and a direction with a component along
\* both
C21_Witness ==
    /\ last.op = "calculate_surface_delta_xi"
    /\ gramDeterminant > 0
    /\ dotproduct(last.d1, last.d2) # 0
    /\ last.result[1] # 0 /\ last.result[2] # 0

\* C22: with a Gram determinant that is not positive
\* calculate_surface_delta_xi returns at most one non-zero component, which
\* belongs to a non-zero tangent t and is the projection
\* dot(direction, t) / dot(t, t) of the direction onto it; with both tangents
\* zero the result is (0, 0).
C22_SingularFallbackProjects ==
    ((last.op = "calculate_surface_delta_xi") /\ (gramDeterminant <= 0)) =>
        LET r == last.result
            projection(t) == (DeltaXiScale * dotproduct(last.direction, t))
                             \div dotproduct(t, t)
        IN  /\ (r[1] = 0) \/ (r[2] = 0)
            /\ (r[1] # 0) => ((dotproduct(last.d1, last.d1) # 0)
                              /\ (r[1] = projection(last.d1)))
            /\ (r[2] # 0) => ((dotproduct(last.d2, last.d2) # 0)
                              /\ (r[2] = projection(last.d2)))
            /\ ((dotproduct(last.d1, last.d1) = 0)
                /\ (dotproduct(last.d2, last.d2) = 0)) => (r = <<0, 0>>)

\* C29: createMirrorX preserves the presence of cross derivatives: the
\* mirrored surface has one cross derivative per node exactly when the
\* original has cross derivatives, and None exactly when the original has
\* none.
C29_MirrorKeepsCrossDerivatives ==
    ((last.op = "createMirrorX") /\ ~last.result.raised) =>
        /\ (Len(last.result.nd12) = Len(last.result.nx)) <=> (nd12 # << >>)
        /\ last.result.nd12IsNone <=> (nd12 = << >>)

\* the element of the lattice a position with element index e1 lies in: on a
\* surface with loop1 the indices elementsCount1 and above are the second
\* time round
physicalElement1(e1) == IF loop1 THEN e1 % elementsCount1 ELSE e1

\* C23: updatePositionTofaceNumber, applied to a valid position on face f of
\* its element, either moves it to the physical neighbour across that face
\* (element index changed by one, with wrap-around on a surface with loop1,
\* xi at the opposite end, the surface point unchanged) and returns 0, or,
\* only at a true edge of a direction without loop, keeps the element, keeps
\* xi on the edge and returns the boundary code; with loop1 this holds for
\* every valid e1, those of elementsCount1 and above included.
C23_FaceUpdateReachesNeighbour ==
    (last.op = "updatePositionTofaceNumber") =>
        LET p == last.start
            q == last.result.position
            f == last.faceNumber
            step == IF f \in {1, 3} THEN -1 ELSE 1
            trueEdge == \/ (f = 1) /\ ~loop1 /\ (p.e1 = 0)
                        \/ (f = 2) /\ ~loop1 /\ (p.e1 = elementsCount1 - 1)
                        \/ (f = 3) /\ (p.e2 = 0)
                        \/ (f = 4) /\ (p.e2 = elementsCount2 - 1)
            neighbour1 == IF loop1
                          THEN (physicalElement1(p.e1) + step + elementsCount1) % elementsCount1
                          ELSE p.e1 + step
        IN  /\ ValidPosition(q)
            /\ trueEdge =>
                  /\ q = p
                  /\ last.result.onBoundary = (IF f \in {1, 2} THEN 1 ELSE 2)
            /\ (~trueEdge) =>
                  /\ last.result.onBoundary = 0
                  /\ (f \in {1, 2}) =>
                        /\ physicalElement1(q.e1) = neighbour1
                        /\ q.xi1 = (IF f = 1 THEN ONE ELSE 0)
                        /\ (q.e2 = p.e2) /\ (q.xi2 = p.xi2)
                  /\ (f \in {3, 4}) =>
                        /\ q.e2 = p.e2 + step
                        /\ q.xi2 = (IF f = 3 THEN ONE ELSE 0)
                        /\ (q.e1 = p.e1) /\ (q.xi1 = p.xi1)
                  /\ (OnQuarterGrid(p.xi1) /\ OnQuarterGrid(p.xi2)) =>
                        /\ ~evaluateCoordinates(q).raised
                        /\ evaluateCoordinates(q).coordinates
                               = evaluateCoordinates(p).coordinates

\* the faces the unclipped target of the call in last lies beyond, each with
\* the distance from the start to the face and the size of the increment
\* towards it (in TvUnit)
crossedFaces ==
    { c \in { [face |-> 1, distance |-> last.xi1, rate |-> (-last.dxi1) \div TvUnit],
              [face |-> 2, distance |-> ONE - last.xi1, rate |-> last.dxi1 \div TvUnit],
              [face |-> 3, distance |-> last.xi2, rate |-> (-last.dxi2) \div TvUnit],
              [face |-> 4, distance |-> ONE - last.xi2, rate |-> last.dxi2 \div TvUnit] } :
        (c.rate > 0) /\ (c.distance < c.rate * TvUnit) }

C25_TrackVectorReturnsValidPosition ==
    ((last.op = "trackVector") /\ (tv.pc = "done")) => ValidPosition(tv.position)

\* a pass of findIntersectionPoint evaluated a jolt with a non-zero increment
joltEvaluated ==
    /\ fp.pc \in { "loop", "notfound", "raised" }
    /\ fp.jolt.branch # "none"
    /\ fp.jolt.jolt_dxi # <<0, 0>>

\* C26: after a non-zero jolt has been evaluated at a stagnation event of
\* findIntersectionPoint: if the signed out-of-plane residuals before and
\* after the jolt have opposite signs (or one is zero) the step taken is the
\* jolt increment scaled by |r_before| / (|r_before| + |r_after|), a factor in
\* [0, 1] computed without a division by zero; else if the jolt made the
\* absolute residual smaller the whole jolt increment is the step; otherwise
\* the unperturbed small increment is the step.
C26_JoltStepIsInterpolated ==
    joltEvaluated =>
        LET j   == fp.jolt
            rb  == Abs(j.r_dot_n_signed)
            ra  == Abs(j.jolt_r_dot_n_signed)
        IN  /\ fp.pc # "raised"
            /\ IF j.r_dot_n_signed * j.jolt_r_dot_n_signed <= 0
               THEN /\ rb + ra > 0
                    /\ j.step = << (j.jolt_dxi[1] * rb) \div (rb + ra),
                                   (j.jolt_dxi[2] * rb) \div (rb + ra) >>
               ELSE IF ra < rb
               THEN j.step = j.jolt_dxi
               ELSE j.step = j.computed

\* the jolt increment of case c: in the interior -xi1, -xi2, +xi1, +xi2 for
\* c = 0, 1, 2, 3, and along an edge of direction d (1 or 2) the negative and
\* the positive direction for c = 0, 1
interiorJolt(c) ==
    << IF c = 0 THEN -MAG_JOLT_DXI ELSE IF c = 2 THEN MAG_JOLT_DXI ELSE 0,
       IF c = 1 THEN -MAG_JOLT_DXI ELSE IF c = 3 THEN MAG_JOLT_DXI ELSE 0 >>

edgeJolt(d, c) ==
    << IF d = 1 THEN 0 ELSE IF c = 0 THEN -MAG_JOLT_DXI ELSE MAG_JOLT_DXI,
       IF d = 2 THEN 0 ELSE IF c = 0 THEN -MAG_JOLT_DXI ELSE MAG_JOLT_DXI >>

\* C27: within one findIntersectionPoint call every stagnation event advances
\* the jolt counter by one, so that the k-th event (k = 0, 1, ...) uses case
\* k: in the interior the jolts are -xi1, -xi2, +xi1, +xi2 with period four,
\* and on a boundary the two directions along the edge alternate.
C27_JoltCasesRoundRobin ==
    ((fp.pc \in { "loop", "notfound" }) /\ (fp.jolt.branch # "none")) =>
        /\ fp.jolt_index = fp.stagnations
        /\ fp.jolt.index = fp.stagnations - 1
        /\ (fp.jolt.branch = "interior") =>
              (fp.jolt.raw = interiorJolt((fp.stagnations - 1) % 4))
        /\ (fp.jolt.branch = "self") =>
              (fp.jolt.raw = edgeJolt(fp.jolt.onBoundary, (fp.stagnations - 1) % 2))

\* C30: in findIntersectionCurve a point found on a boundary within X_TOL of
\* its neighbour in the chain is itself the point removed, in the forward
\* trace (appended at the end) and in the reverse trace (inserted at the
\* front) alike: a boundary hit never removes the point at the opposite end,
\* and the chain left at the second boundary has no two adjacent points within
\* X_TOL.
C30_BoundaryHitRemovesNewDuplicate ==
    (fc.pc \in { "trace", "resample" }) =>
        /\ fc.popped # "other"
        /\ ((fc.pc = "resample") /\ (fc.exit = "boundary")) =>
              \A i \in 1..(Len(fc.px) - 1) :
                 curveDistance(fc.px[i], fc.px[i + 1]) >= CURVE_X_TOL

\* a valid position of the other surface of the findIntersectionCurve call
ValidOtherPosition(p) ==
    /\ p.e1 \in 0..(fc.otherElementsCount1 - 1)
    /\ p.e2 \in 0..(fc.otherElementsCount2 - 1)
    /\ p.xi1 >= 0 /\ p.xi1 <= ONE /\ p.xi2 >= 0 /\ p.xi2 <= ONE

\* C28: when findIntersectionCurve is called with a startPosition, the
\* initial other-surface position it passes to findIntersectionPoint is a
\* valid position of the other surface (element indices within its element
\* counts), for any pair of surfaces, ones with different element counts
\* included, and the call does not end with an IndexError.
C28_OtherStartPositionOnOtherSurface ==
    ((fc.pc # "idle") /\ fc.startGiven) =>
        /\ ValidOtherPosition(fc.otherStartPosition)
        /\ fc.error # "IndexError"

====
